---------------------------- MODULE Spec2Model ----------------------------
(***************************************************************************)
(* Model of the admission / progression engine of hackz-ptera-back:        *)
(* the waiting queue, the user record and its stage table, the per-user    *)
(* timeout supervisors, the failure paths of the handlers and the token    *)
(* expiry monitor.                                                         *)
(***************************************************************************)
EXTENDS Integers, Sequences, FiniteSets, TLC

(***************************************************************************)
(* Bounds of the model                                                     *)
(***************************************************************************)
\* longest waiting queue explored
MaxQueue == 3
\* number of Add/AddUser calls explored (insertion stamps 1..MaxAdds)
MaxAdds == 4
\* number of failure paths (handler requests, armed timeouts, watches) entered
MaxPaths == 2
\* last instant of the clock
MaxTime == 3
\* number of SessionStore.Create calls explored
MaxSessions == 2
\* number of rectangles a PlacementManager is filled with
MaxPlaced == 3
\* calls of ExecuteWithCallback on one DelayExecutor
MaxRuns == 2

(***************************************************************************)
(* Values                                                                  *)
(***************************************************************************)
\* a nil model.WebSocketConn
NoConn == "nil"
ConnIds == {"c1", "c2"}
\* ids used by the callers of the waiting queue
QueueIds == {"a", "b", "c"}

UserIds == {"u1", "u2"}
\* the two timeout supervisors of the game package
TimeoutIds == {"captcha", "captcha2", "dino"}
\* failure paths of the handler layer
PathIds == {"HandleFailure", "CaptchaMax", "CaptchaMax2", "OTPMax", "Register", "DinoResult"}
\* goroutines started by TokenMonitor.Watch (one stop channel each)
LoopIds == {"l1", "l2", "l3"}
ProcIds == TimeoutIds \cup PathIds \cup LoopIds

VARIABLES
    queue,      \* WaitingQueue.users: sequence of [ID, Conn, stamp]
    nextStamp,  \* number of entries ever appended (stamp is the insertion rank)
    qres,       \* what the last GetPosition / Len / PopFront returned
    users,      \* the model.User records
    conns,      \* per connection: messages written and Close() calls
    proc,       \* per goroutine: position, user, captured conn, events so far
    tmo,        \* CaptchaTimeout / DinoTimeout fields
    tgh,        \* history of Start / Cancel calls per timeout
    hq,         \* whether SetQueue was called on the handlers
    mon,        \* TokenMonitor fields, stop channels and tickers
    mgh,        \* history of Watch / Unwatch / Stop calls
    now,        \* the clock
    nstarted,   \* number of failure paths entered so far
    canRes,     \* what the last CanTransition returned
    store,      \* SessionStore fields
    sget,       \* per caller of SessionStore.Get: position, id, entry read
    sgh,        \* history of the SessionStore calls
    pm,         \* PlacementManager fields and the position of TryPlace
    pgh,        \* history of the PlacementManager calls
    dex,        \* DelayExecutor fields and the position of ExecuteWithCallback
    sup,        \* a timeout supervisor that is started more than once
    ws,         \* per connection: the handleMessages goroutine and its queue entry
    lk          \* per goroutine of the lock view: the operation and the locks taken so far

qvars == <<queue, nextStamp, qres>>
uvars == <<users, conns>>
tvars == <<tmo, tgh>>
mvars == <<mon, mgh, now>>
svars == <<store, sget, sgh>>
pvars == <<pm, pgh>>
\* the parts no handler, supervisor or monitor writes
hvars == <<hq, store, sget, sgh, pm, pgh, dex, sup, ws, lk>>
nonq == <<users, conns, proc, tmo, tgh, hvars, mon, mgh, now, nstarted, canRes>>
vars == <<queue, nextStamp, qres, users, conns, proc, tmo, tgh, hq, mon, mgh, now,
          nstarted, canRes, store, sget, sgh, pm, pgh, dex, sup, ws, lk>>

(***************************************************************************)
(* WaitingQueue                                                            *)
(***************************************************************************)
\* index of the first entry whose ID is id, scanning from i; 0 when none
RECURSIVE FirstIndex(_, _, _)
FirstIndex(s, id, i) ==
    IF i > Len(s) THEN 0
    ELSE IF s[i].ID = id THEN i
    ELSE FirstIndex(s, id, i + 1)

\* append(q.users[:i], q.users[i+1:]...)
RemoveAt(s, i) == SubSeq(s, 1, i - 1) \o SubSeq(s, i + 1, Len(s))

\* q.users = append(q.users, &QueueUser{ID: userID, Conn: conn})
Appended(s, id, conn, stamp) == Append(s, [ID |-> id, Conn |-> conn, stamp |-> stamp])

\* variant of Remove that fills the hole with the last entry (swap-remove)
RemovedSwap(s, id) ==
    LET i == FirstIndex(s, id, 1)
    IN  IF i = 0 THEN s
        ELSE IF i = Len(s) THEN SubSeq(s, 1, Len(s) - 1)
        ELSE [k \in 1..(Len(s) - 1) |-> IF k = i THEN s[Len(s)] ELSE s[k]]

\* the users slice after Remove(userID)
Removed(s, id) ==
    LET i == FirstIndex(s, id, 1)
    IN  IF i = 0 THEN s ELSE RemoveAt(s, i)

\* (position, found) of GetPosition(userID)
GetPositionOf(s, id) ==
    LET i == FirstIndex(s, id, 1)
    IN  IF i = 0 THEN <<0, FALSE>> ELSE <<i, TRUE>>

NoRes == [op |-> "none"]

Add(id, conn) ==
    /\ Len(queue) < MaxQueue
    /\ nextStamp < MaxAdds
    /\ queue' = Appended(queue, id, conn, nextStamp + 1)
    /\ nextStamp' = nextStamp + 1
    /\ qres' = NoRes

AddUser(qu) ==
    /\ Len(queue) < MaxQueue
    /\ nextStamp < MaxAdds
    /\ queue' = Append(queue, [ID |-> qu.ID, Conn |-> qu.Conn, stamp |-> nextStamp + 1])
    /\ nextStamp' = nextStamp + 1
    /\ qres' = NoRes

Remove(id) ==
    /\ queue' = Removed(queue, id)
    /\ qres' = [op |-> "Remove", id |-> id, before |-> queue]
    /\ UNCHANGED nextStamp

GetPosition(id) ==
    /\ qres' = [op |-> "GetPosition", id |-> id,
                pos |-> GetPositionOf(queue, id)[1],
                found |-> GetPositionOf(queue, id)[2]]
    /\ UNCHANGED <<queue, nextStamp>>

QLen ==
    /\ qres' = [op |-> "Len", n |-> Len(queue)]
    /\ UNCHANGED <<queue, nextStamp>>

\* variant of PopFront that returns the head but drops the last entry
PopFrontDropsLast ==
    /\ IF Len(queue) = 0
       THEN /\ qres' = [op |-> "PopFront", user |-> <<>>, before |-> queue]
            /\ UNCHANGED queue
       ELSE /\ qres' = [op |-> "PopFront", user |-> <<queue[1]>>, before |-> queue]
            /\ queue' = SubSeq(queue, 1, Len(queue) - 1)
    /\ UNCHANGED nextStamp

\* the returned *QueueUser is <<>> for nil and <<entry>> otherwise
PopFront ==
    /\ IF Len(queue) = 0
       THEN /\ qres' = [op |-> "PopFront", user |-> <<>>, before |-> queue]
            /\ UNCHANGED queue
       ELSE /\ qres' = [op |-> "PopFront", user |-> <<queue[1]>>, before |-> queue]
            /\ queue' = Tail(queue)
    /\ UNCHANGED nextStamp

(***************************************************************************)
(* model.User                                                              *)
(***************************************************************************)
StatusWaiting == "waiting"
StatusStage1Dino == "stage1_dino"
StatusStage2Captcha == "stage2_captcha"
StatusRegistering == "registering"
Statuses == {StatusWaiting, StatusStage1Dino, StatusStage2Captcha, StatusRegistering}

MaxCaptchaAttempts == 3
MaxOTPAttempts == 3
\* time.Time{} ; real instants are 1, 2, ...
ZeroTime == 0

\* &model.User{...} as the callers and tests build it
MkUser(id, status, ca, oa, fish, tok, exp, conn) ==
    [ID |-> id, SessionID |-> id, JoinedAt |-> 1, Status |-> status,
     CaptchaTargetX |-> IF status = StatusWaiting THEN 0 ELSE 1,
     CaptchaTargetY |-> IF status = StatusWaiting THEN 0 ELSE 1,
     CaptchaAttempts |-> ca, OTPFishName |-> fish, OTPAttempts |-> oa,
     RegisterToken |-> tok, RegisterTokenExp |-> exp, Conn |-> conn]

\* a variant of u.ResetToWaiting() that leaves the register token alone
ResetKeepsToken(u) ==
    [u EXCEPT !.Status = StatusWaiting,
              !.CaptchaAttempts = 0, !.CaptchaTargetX = 0, !.CaptchaTargetY = 0,
              !.OTPAttempts = 0, !.OTPFishName = ""]

\* a variant of u.ResetToWaiting() that leaves the attempt counters alone
ResetKeepsAttempts(u) ==
    [u EXCEPT !.Status = StatusWaiting,
              !.CaptchaTargetX = 0, !.CaptchaTargetY = 0,
              !.OTPFishName = "",
              !.RegisterToken = "", !.RegisterTokenExp = ZeroTime]

ResetToWaiting(u) ==
    [u EXCEPT !.Status = StatusWaiting,
              !.CaptchaAttempts = 0, !.CaptchaTargetX = 0, !.CaptchaTargetY = 0,
              !.OTPAttempts = 0, !.OTPFishName = "",
              !.RegisterToken = "", !.RegisterTokenExp = ZeroTime]

(***************************************************************************)
(* Connections (MockWebSocketConn: every write is recorded, Close counted) *)
(***************************************************************************)
FailureMsg(text) == [type |-> "failure", message |-> text, redirect_delay |-> 3]
TokenExpiredMsg == [code |-> "TOKEN_EXPIRED", message |-> "token expired"]

\* werr: the connection's writes fail (MockWebSocketConn.WriteErr); a failed
\* write records nothing
WriteJSON(cs, c, m) == IF cs[c].werr THEN cs ELSE [cs EXCEPT ![c].sent = Append(@, m)]
Close(cs, c) == [cs EXCEPT ![c].closed = @ + 1]

FreshConns == [c \in ConnIds |-> [sent |-> <<>>, closed |-> 0, werr |-> FALSE]]

QueueUpdateMsg(position, total) ==
    [type |-> "queueUpdate", position |-> position, total |-> total]

\* variant of the loop that reports the slice index instead of i + 1
RECURSIVE SendPositionsZeroBased(_, _, _)
SendPositionsZeroBased(cs, q, i) ==
    IF i > Len(q) THEN cs
    ELSE SendPositionsZeroBased(IF q[i].Conn # NoConn
                                THEN WriteJSON(cs, q[i].Conn, QueueUpdateMsg(i - 1, Len(q)))
                                ELSE cs, q, i + 1)

\* for i, user := range q.users { if user.Conn != nil { user.Conn.WriteJSON(...) } }
\* from the i-th entry on (i counts from 1, so i is the code's i + 1)
RECURSIVE SendPositions(_, _, _)
SendPositions(cs, q, i) ==
    IF i > Len(q) THEN cs
    ELSE SendPositions(IF q[i].Conn # NoConn
                       THEN WriteJSON(cs, q[i].Conn, QueueUpdateMsg(i, Len(q)))
                       ELSE cs, q, i + 1)

\* BroadcastPositions(), under q.mu.RLock
BroadcastPositions ==
    /\ nstarted < MaxPaths
    /\ nstarted' = nstarted + 1
    /\ conns' = SendPositions(conns, queue, 1)
    /\ qres' = [op |-> "BroadcastPositions", before |-> queue, sent |-> conns]
    /\ UNCHANGED <<queue, nextStamp, users, proc, tvars, hvars, mvars, canRes>>

\* a status string outside the enum
StatusUnknown == "unknown"
StageValues == Statuses \cup {StatusUnknown}

\* variant of the table that also lets a waiting user jump to registering
validTransitionsLoose ==
    [s \in Statuses |->
        CASE s = StatusWaiting -> <<StatusStage1Dino, StatusRegistering>>
          [] s = StatusStage1Dino -> <<StatusStage2Captcha, StatusWaiting>>
          [] s = StatusStage2Captcha -> <<StatusRegistering, StatusWaiting>>
          [] s = StatusRegistering -> <<StatusWaiting>>]

\* validTransitions: map[string][]string
validTransitions ==
    [s \in Statuses |->
        CASE s = StatusWaiting -> <<StatusStage1Dino>>
          [] s = StatusStage1Dino -> <<StatusStage2Captcha, StatusWaiting>>
          [] s = StatusStage2Captcha -> <<StatusRegistering, StatusWaiting>>
          [] s = StatusRegistering -> <<StatusWaiting>>]

\* the range loop of CanTransitionTo from index i on
RECURSIVE ScanAllowed(_, _, _)
ScanAllowed(allowed, status, i) ==
    IF i > Len(allowed) THEN FALSE
    ELSE IF allowed[i] = status THEN TRUE
    ELSE ScanAllowed(allowed, status, i + 1)

\* (u *User) CanTransitionTo(status)
CanTransitionTo(u, status) ==
    IF u.Status \notin DOMAIN validTransitions THEN FALSE
    ELSE ScanAllowed(validTransitions[u.Status], status, 1)

(***************************************************************************)
(* Goroutines: pc, the user they work on, the conn they captured, and the  *)
(* side effects they have performed so far                                 *)
(***************************************************************************)
\* held: the connection the user held when the function was entered
IdleProc(u) == [pc |-> "idle", user |-> u, conn |-> NoConn, held |-> NoConn, log |-> <<>>]

At(p, label) == proc[p].pc = label
\* failure paths begun so far: handler entries and watches, plus armed supervisors
Entered == nstarted + Cardinality({t \in TimeoutIds : tgh[t].started})
Goto(p, label, ev) ==
    proc' = [proc EXCEPT ![p].pc = label, ![p].log = @ \o ev]
GotoWith(p, label, ev, c) ==
    proc' = [proc EXCEPT ![p].pc = label, ![p].log = @ \o ev, ![p].conn = c]
UserOf(p) == users[proc[p].user]
Begin(p, label, ev) ==
    proc' = [proc EXCEPT ![p].pc = label, ![p].log = @ \o ev, ![p].held = UserOf(p).Conn]

\* if user.Conn != nil { user.Conn.WriteJSON(msg) }
NotifyStep(p, msg, next) ==
    IF UserOf(p).Conn # NoConn
    THEN /\ conns' = WriteJSON(conns, UserOf(p).Conn, msg)
         /\ Goto(p, next, <<"notify">>)
    ELSE /\ UNCHANGED conns
         /\ Goto(p, next, <<>>)

\* user.ResetToWaiting()
ResetStep(p, next) ==
    /\ users' = [users EXCEPT ![proc[p].user] = ResetToWaiting(@)]
    /\ Goto(p, next, <<"reset">>)

\* variant of the re-enqueue that puts the user at the head of the queue
EnqueueStepFront(p, queueSet, next) ==
    IF queueSet
    THEN /\ queue' = <<[ID |-> UserOf(p).ID, Conn |-> UserOf(p).Conn,
                        stamp |-> nextStamp + 1]>> \o queue
         /\ nextStamp' = nextStamp + 1
         /\ Goto(p, next, <<"enqueue">>)
    ELSE /\ UNCHANGED <<queue, nextStamp>>
         /\ Goto(p, next, <<>>)

\* if queue != nil { queue.Add(user.ID, user.Conn) }
EnqueueStep(p, queueSet, next) ==
    IF queueSet
    THEN /\ queue' = Appended(queue, UserOf(p).ID, UserOf(p).Conn, nextStamp + 1)
         /\ nextStamp' = nextStamp + 1
         /\ Goto(p, next, <<"enqueue">>)
    ELSE /\ UNCHANGED <<queue, nextStamp>>
         /\ Goto(p, next, <<>>)

\* if user.Conn != nil { conn := user.Conn
CaptureStep(p, next, otherwise) ==
    IF UserOf(p).Conn # NoConn
    THEN GotoWith(p, next, <<>>, UserOf(p).Conn)
    ELSE Goto(p, otherwise, <<>>)

\* user.Conn = nil ; go func() { ... }()
NullStep(p, next) ==
    /\ users' = [users EXCEPT ![proc[p].user].Conn = NoConn]
    /\ Goto(p, next, <<"null">>)

\* conn.Close() on the captured connection
CloseCapturedStep(p, next) ==
    /\ conns' = Close(conns, proc[p].conn)
    /\ Goto(p, next, <<"close">>)

(***************************************************************************)
(* game.CaptchaTimeout and game.DinoTimeout                                *)
(*   timer: "nil" before Start, "armed" after time.AfterFunc, "stopped"    *)
(*   after timer.Stop() caught it, "fired" once the runtime has started    *)
(*   handleTimeout in its own goroutine (proc[t], waiting at t.mu.Lock()). *)
(***************************************************************************)
NewTimeout(u, qset) ==
    [user |-> u, queueSet |-> qset, running |-> FALSE, canceled |-> FALSE, timer |-> "nil"]
\* conn: the connection the user held when Start was called
NoCalls == [started |-> FALSE, cancelCalled |-> FALSE, cancelWon |-> FALSE, conn |-> NoConn]

\* Start(): t.running = true; t.canceled = false; t.timer = time.AfterFunc(...)
TimeoutStart(t) ==
    /\ tmo' = [tmo EXCEPT ![t].running = TRUE, ![t].canceled = FALSE, ![t].timer = "armed"]
    /\ tgh' = [tgh EXCEPT ![t].started = TRUE, ![t].cancelWon = FALSE,
                          ![t].conn = users[tmo[t].user].Conn]
    /\ UNCHANGED <<qvars, uvars, proc, hvars, mvars, nstarted, canRes>>

\* the deadline elapses: the runtime runs t.handleTimeout in a new goroutine
TimerFire(t) ==
    /\ tmo[t].timer = "armed"
    /\ At(t, "idle")
    /\ tmo' = [tmo EXCEPT ![t].timer = "fired"]
    /\ Goto(t, "lock", <<>>)
    /\ UNCHANGED <<qvars, uvars, tgh, hvars, mvars, nstarted, canRes>>

\* variant of Cancel that stops the timer but leaves the canceled flag alone
TimeoutCancelNoFlag(t) ==
    /\ tmo' = [tmo EXCEPT ![t].running = FALSE,
                          ![t].timer = IF @ = "armed" THEN "stopped" ELSE @]
    /\ tgh' = [tgh EXCEPT ![t].cancelCalled = TRUE,
                          ![t].cancelWon = @ \/ proc[t].pc \in {"idle", "lock"}]
    /\ UNCHANGED <<qvars, uvars, proc, hvars, mvars, nstarted, canRes>>

\* Cancel(): t.canceled = true; t.running = false; if t.timer != nil { t.timer.Stop() }
\* cancelWon records that Cancel returned before handleTimeout read the flag
TimeoutCancel(t) ==
    /\ tmo' = [tmo EXCEPT ![t].canceled = TRUE, ![t].running = FALSE,
                          ![t].timer = IF @ = "armed" THEN "stopped" ELSE @]
    /\ tgh' = [tgh EXCEPT ![t].cancelCalled = TRUE,
                          ![t].cancelWon = @ \/ proc[t].pc \in {"idle", "lock"}]
    /\ UNCHANGED <<qvars, uvars, proc, hvars, mvars, nstarted, canRes>>

\* handleTimeout, first critical section: return if canceled, else running = false
TimeoutCheck(t) ==
    /\ At(t, "lock")
    /\ IF tmo[t].canceled
       THEN /\ Goto(t, "aborted", <<>>)
            /\ UNCHANGED tmo
       ELSE /\ Begin(t, "notify", <<>>)
            /\ tmo' = [tmo EXCEPT ![t].running = FALSE]
    /\ UNCHANGED <<qvars, uvars, tgh, hvars, mvars, nstarted, canRes>>

TimeoutMsg == FailureMsg("timeout")

CaptchaTimeout_Start == TimeoutStart("captcha")
CaptchaTimeout_Cancel == TimeoutCancel("captcha")
CaptchaTimeout_fire == TimerFire("captcha")

\* if user.Conn != nil { user.Conn.Close() }
CaptchaClose(p) ==
    /\ At(p, "close")
    /\ IF UserOf(p).Conn # NoConn
       THEN /\ conns' = Close(conns, UserOf(p).Conn)
            /\ Goto(p, "done", <<"close">>)
       ELSE /\ UNCHANGED conns
            /\ Goto(p, "done", <<>>)
    /\ UNCHANGED <<qvars, users, tvars, hvars, mvars, nstarted, canRes>>

\* handleTimeout of the CaptchaTimeout instance t
CaptchaTimeout_handleTimeoutOf(t) ==
    \/ TimeoutCheck(t)
    \/ /\ At(t, "notify")
       /\ NotifyStep(t, TimeoutMsg, "reset")
       /\ UNCHANGED <<qvars, users, tvars, hvars, mvars, nstarted, canRes>>
    \/ /\ At(t, "reset")
       /\ ResetStep(t, "enqueue")
       /\ UNCHANGED <<qvars, conns, tvars, hvars, mvars, nstarted, canRes>>
    \/ /\ At(t, "enqueue")
       /\ EnqueueStep(t, tmo[t].queueSet, "close")
       /\ UNCHANGED <<qres, uvars, tvars, hvars, mvars, nstarted, canRes>>
    \/ CaptchaClose(t)

CaptchaTimeout_handleTimeout == CaptchaTimeout_handleTimeoutOf("captcha")

DinoTimeout_Start == TimeoutStart("dino")
DinoTimeout_Cancel == TimeoutCancel("dino")
DinoTimeout_fire == TimerFire("dino")

DinoTimeout_handleTimeout ==
    \/ TimeoutCheck("dino")
    \/ /\ At("dino", "notify")
       /\ NotifyStep("dino", TimeoutMsg, "reset")
       /\ UNCHANGED <<qvars, users, tvars, hvars, mvars, nstarted, canRes>>
    \/ /\ At("dino", "reset")
       /\ ResetStep("dino", "capture")
       /\ UNCHANGED <<qvars, conns, tvars, hvars, mvars, nstarted, canRes>>
    \/ /\ At("dino", "capture")
       /\ CaptureStep("dino", "null", "done")
       /\ UNCHANGED <<qvars, uvars, tvars, hvars, mvars, nstarted, canRes>>
    \/ /\ At("dino", "null")
       /\ NullStep("dino", "goclose")
       /\ UNCHANGED <<qvars, conns, tvars, hvars, mvars, nstarted, canRes>>
    \/ /\ At("dino", "goclose")
       /\ CloseCapturedStep("dino", "done")
       /\ UNCHANGED <<qvars, users, tvars, hvars, mvars, nstarted, canRes>>

(***************************************************************************)
(* token.TokenMonitor state                                                *)
(*   watchers: userID -> stop channel ("none" when the key is absent)      *)
(*   closed:   how often close(stopCh) ran on each channel                 *)
(*   tick:     whether the loop's ticker.C holds an unread tick            *)
(***************************************************************************)
NewTokenMonitor(qset) ==
    [queueSet |-> qset,
     watchers |-> [u \in UserIds |-> "none"],
     closed |-> [l \in LoopIds |-> 0],
     tick |-> [l \in LoopIds |-> FALSE]]
\* uwon / swon: Unwatch(user) / Stop() returned while the loop was still polling
NoMonCalls == [stopCalled |-> FALSE,
               unwatched |-> [u \in UserIds |-> FALSE],
               watches |-> [u \in UserIds |-> 0],
               uwon |-> [l \in LoopIds |-> FALSE],
               swon |-> [l \in LoopIds |-> FALSE]]

\* TokenExpiry (10 minutes) in clock units of 5 minutes
TokenExpiry == 2

\* IsTokenExpired(user) at instant t
IsTokenExpired(u, t) ==
    IF u.RegisterTokenExp = ZeroTime THEN TRUE
    ELSE t > u.RegisterTokenExp \/ t = u.RegisterTokenExp

\* the k-th token uuid.New hands out
TokenName(k) == CASE k = 1 -> "t1" [] k = 2 -> "t2" [] k = 3 -> "t3" [] OTHER -> "t4"

\* GenerateRegisterToken(user): a fresh token, valid for TokenExpiry from now
GenerateRegisterToken(id) ==
    /\ store.issued < MaxSessions
    /\ store' = [store EXCEPT !.issued = @ + 1]
    /\ users' = [users EXCEPT ![id].RegisterToken = TokenName(store.issued + 1),
                              ![id].RegisterTokenExp = now + TokenExpiry]
    /\ canRes' = [op |-> "Generate", id |-> id, token |-> TokenName(store.issued + 1)]
    /\ UNCHANGED <<qvars, conns, proc, tvars, hq, dex, sup, ws, lk, sget, sgh, pvars, mvars, nstarted>>

\* variant of the validation that looks at the token before the session
ValidateTokenFirst(u, sessionID, token, t) ==
    IF token = "" \/ u.RegisterToken # token THEN <<FALSE, "INVALID_TOKEN">>
    ELSE IF u.SessionID # sessionID THEN <<FALSE, "INVALID_SESSION">>
    ELSE IF IsTokenExpired(u, t) THEN <<FALSE, "TOKEN_EXPIRED">>
    ELSE <<TRUE, "">>

\* ValidateRegisterToken(user, sessionID, token) at instant t: (valid, errorCode)
ValidateRegisterToken(u, sessionID, token, t) ==
    IF u.SessionID # sessionID THEN <<FALSE, "INVALID_SESSION">>
    ELSE IF token = "" \/ u.RegisterToken # token THEN <<FALSE, "INVALID_TOKEN">>
    ELSE IF IsTokenExpired(u, t) THEN <<FALSE, "TOKEN_EXPIRED">>
    ELSE <<TRUE, "">>

\* a caller validates a token against the user record
Validate(id, sessionID, token) ==
    /\ canRes' = [op |-> "Validate", id |-> id, sessionID |-> sessionID,
                  token |-> token, before |-> users[id], at |-> now,
                  valid |-> ValidateRegisterToken(users[id], sessionID, token, now)[1],
                  code |-> ValidateRegisterToken(users[id], sessionID, token, now)[2]]
    /\ UNCHANGED <<qvars, uvars, proc, tvars, hvars, mvars, nstarted>>

\* the goroutine Watch starts next
FreeLoops == {l \in LoopIds : proc[l].pc = "idle"}
NextLoop == CHOOSE l \in FreeLoops : \A k \in FreeLoops : l = k \/ <<l, k>> \in {<<"l1", "l2">>, <<"l1", "l3">>, <<"l2", "l3">>}

\* Watch(user): stopCh := make(chan struct{}); m.watchers[user.ID] = stopCh; go m.watchUser
Watch(u) ==
    /\ FreeLoops # {}
    /\ Entered < MaxPaths
    /\ nstarted' = nstarted + 1
    /\ mon' = [mon EXCEPT !.watchers[u] = NextLoop]
    /\ mgh' = [mgh EXCEPT !.watches[u] = @ + 1]
    /\ proc' = [proc EXCEPT ![NextLoop] = [IdleProc(u) EXCEPT !.pc = "select"]]
    /\ UNCHANGED <<qvars, uvars, tvars, hvars, now, canRes>>

\* the ticker of loop l puts a tick into ticker.C (capacity 1)
Tick(l) ==
    /\ At(l, "select")
    /\ ~mon.tick[l]
    /\ mon' = [mon EXCEPT !.tick[l] = TRUE]
    /\ UNCHANGED <<qvars, uvars, proc, tvars, hvars, mgh, now, nstarted, canRes>>

\* time passes
Tock ==
    /\ now < MaxTime
    /\ now' = now + 1
    /\ UNCHANGED <<qvars, uvars, proc, tvars, hvars, mon, mgh, nstarted, canRes>>

\* where watchUser goes after handleExpiration: it returns
AfterExpirationLoops == "select"
AfterExpiration == "done"

\* watchUser, case <-stopCh: return
watchUser_stop(l) ==
    /\ At(l, "select")
    /\ mon.closed[l] > 0
    /\ Goto(l, "stopped", <<>>)
    /\ UNCHANGED <<qvars, uvars, tvars, hvars, mvars, nstarted, canRes>>

\* watchUser, case <-ticker.C: if IsTokenExpired(user) { handleExpiration; return }
watchUser_tick(l) ==
    /\ At(l, "select")
    /\ mon.tick[l]
    /\ mon' = [mon EXCEPT !.tick[l] = FALSE]
    /\ IF IsTokenExpired(UserOf(l), now)
       THEN Begin(l, "hx_notify", <<>>)
       ELSE UNCHANGED proc
    /\ UNCHANGED <<qvars, uvars, tvars, hvars, mgh, now, nstarted, canRes>>

\* watchUser: select { case <-stopCh: ...; case <-ticker.C: ... }
\* when both are ready the runtime picks either
watchUser(l) == watchUser_stop(l) \/ watchUser_tick(l)

\* handleExpiration: notify and close, ResetToWaiting, queue.Add
handleExpiration(l) ==
    \/ /\ At(l, "hx_notify")
       /\ IF UserOf(l).Conn # NoConn
          THEN /\ conns' = WriteJSON(conns, UserOf(l).Conn, TokenExpiredMsg)
               /\ Goto(l, "hx_close", <<"notify">>)
          ELSE /\ UNCHANGED conns
               /\ Goto(l, "hx_reset", <<>>)
       /\ UNCHANGED <<qvars, users, tvars, hvars, mvars, nstarted, canRes>>
    \/ /\ At(l, "hx_close")
       /\ IF UserOf(l).Conn # NoConn
          THEN /\ conns' = Close(conns, UserOf(l).Conn)
               /\ Goto(l, "hx_reset", <<"close">>)
          ELSE /\ UNCHANGED conns
               /\ Goto(l, "panic", <<>>)
       /\ UNCHANGED <<qvars, users, tvars, hvars, mvars, nstarted, canRes>>
    \/ /\ At(l, "hx_reset")
       /\ ResetStep(l, "hx_add")
       /\ UNCHANGED <<qvars, conns, tvars, hvars, mvars, nstarted, canRes>>
    \/ /\ At(l, "hx_add")
       /\ EnqueueStep(l, mon.queueSet, AfterExpiration)
       /\ UNCHANGED <<qres, uvars, tvars, hvars, mvars, nstarted, canRes>>

Polling(u) == {l \in LoopIds : proc[l].user = u /\ proc[l].pc = "select"}

\* variant of Unwatch: closes the stop channel but leaves it in m.watchers
Unwatch_keepsEntry(u) ==
    /\ mon' = IF mon.watchers[u] = "none" THEN mon
              ELSE [mon EXCEPT !.closed[mon.watchers[u]] = @ + 1]
    /\ mgh' = [mgh EXCEPT !.unwatched[u] = TRUE,
                          !.uwon = [l \in LoopIds |-> @[l] \/ l \in Polling(u)]]
    /\ UNCHANGED <<qvars, uvars, proc, tvars, hvars, now, nstarted, canRes>>

\* Unwatch(user): close and delete the user's stop channel, if any
Unwatch(u) ==
    /\ mon' = IF mon.watchers[u] = "none" THEN mon
              ELSE [mon EXCEPT !.closed[mon.watchers[u]] = @ + 1, !.watchers[u] = "none"]
    /\ mgh' = [mgh EXCEPT !.unwatched[u] = TRUE,
                          !.uwon = [l \in LoopIds |-> @[l] \/ l \in Polling(u)]]
    /\ UNCHANGED <<qvars, uvars, proc, tvars, hvars, now, nstarted, canRes>>

Watched == {mon.watchers[u] : u \in UserIds} \ {"none"}

\* Stop(): close every channel in m.watchers, then replace the map
Stop ==
    /\ mon' = [mon EXCEPT !.closed = [l \in LoopIds |-> IF l \in Watched THEN @[l] + 1 ELSE @[l]],
                          !.watchers = [u \in UserIds |-> "none"]]
    /\ mgh' = [mgh EXCEPT !.stopCalled = TRUE,
                          !.swon = [l \in LoopIds |-> @[l] \/ proc[l].pc = "select"]]
    /\ UNCHANGED <<qvars, uvars, proc, tvars, hvars, now, nstarted, canRes>>

(***************************************************************************)
(* Failure paths of the handler layer, all on the user of the request      *)
(***************************************************************************)
Enter(p, label) ==
    /\ At(p, "idle")
    /\ Entered < MaxPaths
    /\ nstarted' = nstarted + 1
    /\ Begin(p, label, <<>>)

\* go user.Conn.Close(): the receiver is read when the go statement runs
SpawnCloseStep(p) ==
    /\ At(p, "spawn")
    /\ CaptureStep(p, "goclose", "done")
    /\ UNCHANGED <<qvars, uvars, tvars, hvars, mvars, nstarted, canRes>>

\* handleMaxAttempts / handleFakeServerError: notify, reset, re-enqueue, go Close
RequeuePath(p, msg) ==
    \/ /\ At(p, "notify")
       /\ NotifyStep(p, msg, "reset")
       /\ UNCHANGED <<qvars, users, tvars, hvars, mvars, nstarted, canRes>>
    \/ /\ At(p, "reset")
       /\ ResetStep(p, "enqueue")
       /\ UNCHANGED <<qvars, conns, tvars, hvars, mvars, nstarted, canRes>>
    \/ /\ At(p, "enqueue")
       /\ EnqueueStep(p, hq, "spawn")
       /\ UNCHANGED <<qres, uvars, tvars, hvars, mvars, nstarted, canRes>>
    \/ SpawnCloseStep(p)
    \/ /\ At(p, "goclose")
       /\ CloseCapturedStep(p, "done")
       /\ UNCHANGED <<qvars, users, tvars, hvars, mvars, nstarted, canRes>>

\* FailureHandler.HandleFailure(user, message)
FailureHandler_HandleFailure ==
    \/ /\ Enter("HandleFailure", "notify")
       /\ UNCHANGED <<qvars, uvars, tvars, hvars, mvars, canRes>>
    \/ /\ At("HandleFailure", "notify")
       /\ NotifyStep("HandleFailure", FailureMsg("failed"), "reset")
       /\ UNCHANGED <<qvars, users, tvars, hvars, mvars, nstarted, canRes>>
    \/ /\ At("HandleFailure", "reset")
       /\ ResetStep("HandleFailure", "capture")
       /\ UNCHANGED <<qvars, conns, tvars, hvars, mvars, nstarted, canRes>>
    \/ /\ At("HandleFailure", "capture")
       /\ CaptureStep("HandleFailure", "null", "done")
       /\ UNCHANGED <<qvars, uvars, tvars, hvars, mvars, nstarted, canRes>>
    \/ /\ At("HandleFailure", "null")
       /\ NullStep("HandleFailure", "goclose")
       /\ UNCHANGED <<qvars, conns, tvars, hvars, mvars, nstarted, canRes>>
    \/ /\ At("HandleFailure", "goclose")
       /\ CloseCapturedStep("HandleFailure", "done")
       /\ UNCHANGED <<qvars, users, tvars, hvars, mvars, nstarted, canRes>>

\* the JSON body a handler answered with; remaining is -1 when the body has
\* no attempts_remaining
Response(op, u, err, code, remaining) ==
    [op |-> op, id |-> u.ID, before |-> u, after |-> u, error |-> err,
     code |-> code, remaining |-> remaining]
\* the response, with the user record as the handler left it
Answered(resp) == [resp EXCEPT !.after = users'[resp.id]]

\* CaptchaHandler.Verify of the request goroutine p, its effect on the user:
\* a click within tolerance (hit) or a failed attempt; regen:
\* generateCaptchaImage for the retry succeeded
CaptchaVerifyBy(p, hit, regen) ==
    LET u == UserOf(p)
    IN  /\ At(p, "idle")
        /\ Entered < MaxPaths
        /\ IF hit
           THEN /\ users' = [users EXCEPT ![u.ID].Status = StatusRegistering]
                /\ UNCHANGED <<proc, nstarted>>
           ELSE IF u.CaptchaAttempts + 1 >= MaxCaptchaAttempts
           THEN /\ users' = [users EXCEPT ![u.ID].CaptchaAttempts = @ + 1]
                /\ nstarted' = nstarted + 1
                /\ Begin(p, "notify", <<>>)
           ELSE IF regen
           THEN /\ users' = [users EXCEPT ![u.ID].CaptchaAttempts = @ + 1,
                                          ![u.ID].CaptchaTargetX = 2,
                                          ![u.ID].CaptchaTargetY = 2]
                /\ UNCHANGED <<proc, nstarted>>
           ELSE /\ users' = [users EXCEPT ![u.ID].CaptchaAttempts = @ + 1]
                /\ UNCHANGED <<proc, nstarted>>
        /\ UNCHANGED <<qvars, conns, tvars, hvars, mvars>>

CaptchaVerify(hit, regen) == CaptchaVerifyBy("CaptchaMax", hit, regen)

\* variant of the response that reports the attempts left before the failure
CaptchaVerifyResponseStale(u, hit, regen) ==
    IF hit THEN Response("CaptchaVerify", u, FALSE, "", -1)
    ELSE IF u.CaptchaAttempts + 1 >= MaxCaptchaAttempts
    THEN Response("CaptchaVerify", u, TRUE, "handleMaxAttempts", -1)
    ELSE IF regen
    THEN Response("CaptchaVerify", u, TRUE, "", MaxCaptchaAttempts - u.CaptchaAttempts)
    ELSE Response("CaptchaVerify", u, TRUE, "REGENERATION_FAILED", -1)

\* CaptchaHandler.Verify, the JSON it answers with
CaptchaVerifyResponse(u, hit, regen) ==
    IF hit THEN Response("CaptchaVerify", u, FALSE, "", -1)
    ELSE IF u.CaptchaAttempts + 1 >= MaxCaptchaAttempts
    THEN Response("CaptchaVerify", u, TRUE, "handleMaxAttempts", -1)
    ELSE IF regen
    THEN Response("CaptchaVerify", u, TRUE, "", MaxCaptchaAttempts - (u.CaptchaAttempts + 1))
    ELSE Response("CaptchaVerify", u, TRUE, "REGENERATION_FAILED", -1)

CaptchaHandler_Verify(hit, regen) ==
    /\ CaptchaVerify(hit, regen)
    /\ canRes' = Answered(CaptchaVerifyResponse(UserOf("CaptchaMax"), hit, regen))

CaptchaHandler_handleMaxAttempts == RequeuePath("CaptchaMax", FailureMsg("captcha"))

\* OTPHandler.Send: user.OTPFishName = fish.Name; user.OTPAttempts = 0
OTPHandler_Send ==
    LET u == UserOf("OTPMax")
    IN  /\ At("OTPMax", "idle")
        /\ IF u.Status # StatusRegistering
           THEN /\ UNCHANGED users
                /\ canRes' = Answered(Response("OTPSend", u, TRUE, "WRONG_STAGE", -1))
           ELSE /\ users' = [users EXCEPT ![u.ID].OTPFishName = "fish1",
                                          ![u.ID].OTPAttempts = 0]
                /\ canRes' = Answered(Response("OTPSend", u, FALSE, "", -1))
        /\ UNCHANGED <<qvars, conns, proc, tvars, hvars, mvars, nstarted>>

\* OTPHandler.Verify, its effect on the user: the answer matches the
\* remembered fish, or a failed attempt
OTPVerify(match) ==
    LET u == UserOf("OTPMax")
    IN  /\ At("OTPMax", "idle")
        /\ Entered < MaxPaths
        /\ IF match
           THEN UNCHANGED <<users, proc, nstarted>>
           ELSE IF u.OTPAttempts + 1 >= MaxOTPAttempts
           THEN /\ users' = [users EXCEPT ![u.ID].OTPAttempts = @ + 1]
                /\ nstarted' = nstarted + 1
                /\ Begin("OTPMax", "notify", <<>>)
           ELSE /\ users' = [users EXCEPT ![u.ID].OTPAttempts = @ + 1,
                                          ![u.ID].OTPFishName = "fish2"]
                /\ UNCHANGED <<proc, nstarted>>
        /\ UNCHANGED <<qvars, conns, tvars, hvars, mvars>>

\* OTPHandler.Verify, the JSON it answers with
OTPVerifyResponse(u, match) ==
    IF match THEN Response("OTPVerify", u, FALSE, "", -1)
    ELSE IF u.OTPAttempts + 1 >= MaxOTPAttempts
    THEN Response("OTPVerify", u, TRUE, "handleMaxAttempts", -1)
    ELSE Response("OTPVerify", u, TRUE, "", MaxOTPAttempts - (u.OTPAttempts + 1))

OTPHandler_Verify(match) ==
    /\ OTPVerify(match)
    /\ canRes' = Answered(OTPVerifyResponse(UserOf("OTPMax"), match))

OTPHandler_handleMaxAttempts == RequeuePath("OTPMax", FailureMsg("otp"))

\* the tokens a registration request may carry
RequestTokens == {"", "tok", "other"}

\* RegisterHandler.Submit, its effect: a well-formed request of a user in
\* registering enters handleFakeServerError
RegisterSubmit ==
    /\ UserOf("Register").Status = StatusRegistering
    /\ Enter("Register", "notify")
    /\ UNCHANGED <<qvars, uvars, tvars, hvars, mvars>>

\* variant of Submit that lets a request carrying the user's token succeed
RegisterHandler_SubmitChecksToken(token) ==
    LET u == UserOf("Register")
    IN  IF token # "" /\ token = u.RegisterToken
        THEN /\ At("Register", "idle")
             /\ u.Status = StatusRegistering
             /\ UNCHANGED <<qvars, uvars, proc, tvars, hvars, mvars, nstarted>>
             /\ canRes' = Answered(Response("Submit", u, FALSE, token, -1))
        ELSE /\ RegisterSubmit
             /\ canRes' = Answered(Response("Submit", u, TRUE, token, -1))

\* RegisterHandler.Submit: req.Token is bound and never read; the response
\* keeps it as code for the record
RegisterHandler_Submit(token) ==
    /\ RegisterSubmit
    /\ canRes' = Answered(Response("Submit", UserOf("Register"), TRUE, token, -1))

RegisterHandler_handleFakeServerError == RequeuePath("Register", FailureMsg("server"))

\* DinoHandler.Result: "clear" advances, anything else is game over
DinoHandler_Result(clear) ==
    \/ /\ UserOf("DinoResult").Status = StatusStage1Dino
       /\ At("DinoResult", "idle")
       /\ Entered < MaxPaths
       /\ IF clear
          THEN /\ users' = [users EXCEPT ![proc["DinoResult"].user].Status = StatusRegistering]
               /\ UNCHANGED <<proc, nstarted>>
          ELSE /\ users' = [users EXCEPT ![proc["DinoResult"].user] = ResetToWaiting(@)]
               /\ nstarted' = nstarted + 1
               /\ Begin("DinoResult", "notify", <<"reset">>)
       /\ UNCHANGED <<qvars, conns, tvars, hvars, mvars, canRes>>
    \/ /\ At("DinoResult", "notify")
       /\ ~clear
       /\ NotifyStep("DinoResult", FailureMsg("gameover"), "done")
       /\ UNCHANGED <<qvars, users, tvars, hvars, mvars, nstarted, canRes>>

(***************************************************************************)
(* stage.TransitionManager                                                 *)
(***************************************************************************)
stageMessages(to) ==
    CASE to = StatusStage1Dino -> "dino"
      [] to = StatusStage2Captcha -> "captcha"
      [] to = StatusRegistering -> "register"
      [] OTHER -> "changed"
\* variant of the message that names no stage
StageChangeMsgBlank(to) == [type |-> "stage_change", stage |-> "", message |-> stageMessages(to)]
StageChangeMsg(to) == [type |-> "stage_change", stage |-> to, message |-> stageMessages(to)]

\* CanTransition(user, toStatus) returns (valid, errorCode)
CanTransitionResult(u, to) ==
    IF CanTransitionTo(u, to)
    THEN [valid |-> TRUE, code |-> ""]
    ELSE [valid |-> FALSE, code |-> "INVALID_TRANSITION"]

TransitionManager_CanTransition(id, to) ==
    /\ canRes' = [op |-> "CanTransition", from |-> users[id].Status, to |-> to,
                  valid |-> CanTransitionResult(users[id], to).valid,
                  code |-> CanTransitionResult(users[id], to).code]
    /\ UNCHANGED <<qvars, uvars, proc, tvars, hvars, mvars, nstarted>>

\* variant of Execute that writes the status before it looks at the table
ExecuteUnchecked(id, to) ==
    LET r == CanTransitionResult(users[id], to)
    IN  /\ nstarted < MaxPaths
        /\ nstarted' = nstarted + 1
        /\ canRes' = [op |-> "Execute", id |-> id, from |-> users[id].Status, to |-> to,
                      valid |-> r.valid, code |-> r.code,
                      before |-> users[id], sent |-> conns]
        /\ users' = [users EXCEPT ![id].Status = to]
        /\ IF r.valid
           THEN conns' = IF users[id].Conn # NoConn
                         THEN WriteJSON(conns, users[id].Conn, StageChangeMsg(to))
                         ELSE conns
           ELSE UNCHANGED conns
        /\ UNCHANGED <<qvars, proc, tvars, hvars, mvars>>

\* Execute(user, toStatus): refuse, or set the status and notify
\* canRes keeps the error returned, and the record and connections before the call
TransitionManager_Execute(id, to) ==
    LET r == CanTransitionResult(users[id], to)
    IN  /\ nstarted < MaxPaths
        /\ nstarted' = nstarted + 1
        /\ canRes' = [op |-> "Execute", id |-> id, from |-> users[id].Status, to |-> to,
                      valid |-> r.valid, code |-> r.code,
                      before |-> users[id], sent |-> conns]
        /\ IF r.valid
           THEN /\ users' = [users EXCEPT ![id].Status = to]
                /\ conns' = IF users[id].Conn # NoConn
                            THEN WriteJSON(conns, users[id].Conn, StageChangeMsg(to))
                            ELSE conns
           ELSE UNCHANGED <<users, conns>>
        /\ UNCHANGED <<qvars, proc, tvars, hvars, mvars>>

\* a caller resets the user record
User_ResetToWaiting(id) ==
    /\ users' = [users EXCEPT ![id] = ResetToWaiting(@)]
    /\ canRes' = [op |-> "ResetToWaiting", id |-> id, before |-> users[id]]
    /\ UNCHANGED <<qvars, conns, proc, tvars, hvars, mvars, nstarted>>

(***************************************************************************)
(* session.SessionStore                                                    *)
(*   sessions: session id -> [User, CreatedAt]; issued: how many ids       *)
(*   uuid.New has handed out (the k-th id is k)                            *)
(***************************************************************************)
EmptyMap == [k \in {} |-> NoRes]
Put(f, k, v) == [j \in DOMAIN f \cup {k} |-> IF j = k THEN v ELSE f[j]]
Del(f, k) == [j \in DOMAIN f \ {k} |-> f[j]]

NewSessionStoreWithExpiry(expiry) ==
    [sessions |-> EmptyMap, expiry |-> expiry, issued |-> 0]
NewSessionStore == NewSessionStoreWithExpiry(0)

GetterIds == {"g1", "g2"}
IdleGetter == [pc |-> "idle", id |-> 0, entry |-> <<>>]
NoSessionCalls == [creates |-> 0, removals |-> 0, deleted |-> {}, last |-> NoRes,
                   got |-> [g \in GetterIds |-> NoRes]]

StoreIdle ==
    /\ store = NewSessionStore
    /\ sget = [g \in GetterIds |-> IdleGetter]
    /\ sgh = NoSessionCalls

SessionIds == 1..MaxSessions
\* the ids a caller can present: those Create has returned, and a string (0)
\* that is no session id
KnownIds == {0} \cup (1..store.issued)

\* model.NewUser() for the k-th uuid, at instant t
NewUser(k, t) ==
    [ID |-> k, SessionID |-> 0, JoinedAt |-> t, Status |-> StatusWaiting,
     CaptchaTargetX |-> 0, CaptchaTargetY |-> 0, CaptchaAttempts |-> 0,
     OTPFishName |-> "", OTPAttempts |-> 0,
     RegisterToken |-> "", RegisterTokenExp |-> ZeroTime, Conn |-> NoConn]

\* variant of Create whose id generator always returns the first id
SessionStore_CreateSameId ==
    LET k == 1
        u == [NewUser(store.issued + 1, now) EXCEPT !.SessionID = k]
    IN  /\ store.issued < MaxSessions
        /\ store' = [store EXCEPT !.issued = @ + 1,
                                  !.sessions = Put(@, k, [User |-> u, CreatedAt |-> now])]
        /\ sgh' = [sgh EXCEPT !.creates = @ + 1,
                              !.last = [op |-> "Create", id |-> k, before |-> store.sessions]]
        /\ UNCHANGED <<qvars, uvars, proc, tvars, hq, dex, sup, ws, lk, mvars, nstarted, canRes, sget, pvars>>

\* Create(): a new user under a new uuid, under s.mu.Lock
SessionStore_Create ==
    LET k == store.issued + 1
        u == [NewUser(k, now) EXCEPT !.SessionID = k]
    IN  /\ store.issued < MaxSessions
        /\ store' = [store EXCEPT !.issued = k,
                                  !.sessions = Put(@, k, [User |-> u, CreatedAt |-> now])]
        /\ sgh' = [sgh EXCEPT !.creates = @ + 1,
                              !.last = [op |-> "Create", id |-> k, before |-> store.sessions]]
        /\ UNCHANGED <<qvars, uvars, proc, tvars, hq, dex, sup, ws, lk, mvars, nstarted, canRes, sget, pvars>>

\* Get, first critical section: entry, exists := s.sessions[sessionID] under RLock
\* afterDelete: Delete(id) had returned before this Get began
SessionStore_Get_read(g, id) ==
    /\ sget[g].pc \in {"idle", "done"}
    /\ IF id \in DOMAIN store.sessions
       THEN /\ sget' = [sget EXCEPT ![g] = [pc |-> "check", id |-> id,
                                            entry |-> <<store.sessions[id]>>]]
            /\ sgh' = [sgh EXCEPT !.got[g] = [op |-> "Get", id |-> id, stored |-> TRUE,
                                              afterDelete |-> id \in sgh.deleted]]
       ELSE /\ sget' = [sget EXCEPT ![g] = [pc |-> "done", id |-> id, entry |-> <<>>]]
            /\ sgh' = [sgh EXCEPT !.got[g] = [op |-> "Get", id |-> id, stored |-> FALSE,
                                              afterDelete |-> id \in sgh.deleted,
                                              found |-> FALSE, user |-> <<>>]]
    /\ UNCHANGED <<qvars, uvars, proc, tvars, hq, dex, sup, ws, lk, mvars, nstarted, canRes, store, pvars>>

\* variant that already expires a session whose age equals the TTL
ExpiredAtTTL(entry, expiry, t) == expiry > 0 /\ t - entry.CreatedAt >= expiry
\* s.expiry > 0 && time.Since(entry.CreatedAt) > s.expiry
Expired(entry, expiry, t) == expiry > 0 /\ t - entry.CreatedAt > expiry

\* Get, the expiry check outside the lock; age is the time.Since it read
SessionStore_Get_check(g) ==
    LET e == sget[g].entry[1]
    IN  /\ sget[g].pc = "check"
        /\ IF Expired(e, store.expiry, now)
           THEN /\ sget' = [sget EXCEPT ![g].pc = "evict"]
                /\ sgh' = [sgh EXCEPT !.got[g] =
                              [op |-> "Get", id |-> @.id, stored |-> @.stored,
                               afterDelete |-> @.afterDelete, age |-> now - e.CreatedAt]]
           ELSE /\ sget' = [sget EXCEPT ![g].pc = "done"]
                /\ sgh' = [sgh EXCEPT !.got[g] =
                              [op |-> "Get", id |-> @.id, stored |-> @.stored,
                               afterDelete |-> @.afterDelete, age |-> now - e.CreatedAt,
                               found |-> TRUE, user |-> <<e.User>>]]
        /\ UNCHANGED <<qvars, uvars, proc, tvars, hq, dex, sup, ws, lk, mvars, nstarted, canRes, store, pvars>>

\* Get, second critical section: delete(s.sessions, sessionID); return nil, false
SessionStore_Get_evict(g) ==
    LET id == sget[g].id
        present == id \in DOMAIN store.sessions
    IN  /\ sget[g].pc = "evict"
        /\ store' = [store EXCEPT !.sessions = Del(@, id)]
        /\ sget' = [sget EXCEPT ![g].pc = "done"]
        /\ sgh' = [sgh EXCEPT
                     !.removals = IF present THEN @ + 1 ELSE @,
                     !.last = [op |-> "Evict", id |-> id, before |-> store.sessions, at |-> now],
                     !.got[g] = [op |-> "Get", id |-> @.id, stored |-> @.stored,
                                 afterDelete |-> @.afterDelete, age |-> @.age,
                                 found |-> FALSE, user |-> <<>>]]
        /\ UNCHANGED <<qvars, uvars, proc, tvars, hq, dex, sup, ws, lk, mvars, nstarted, canRes, pvars>>

SessionStore_Get(g) == SessionStore_Get_check(g) \/ SessionStore_Get_evict(g)

\* variant of Delete that empties the map
SessionStore_DeleteAll(id) ==
    /\ store' = [store EXCEPT !.sessions = EmptyMap]
    /\ sgh' = [sgh EXCEPT
                 !.removals = IF id \in DOMAIN store.sessions THEN @ + 1 ELSE @,
                 !.deleted = @ \cup {id},
                 !.last = [op |-> "Delete", id |-> id, before |-> store.sessions]]
    /\ UNCHANGED <<qvars, uvars, proc, tvars, hq, dex, sup, ws, lk, mvars, nstarted, canRes, sget, pvars>>

\* Delete(sessionID), under s.mu.Lock
SessionStore_Delete(id) ==
    /\ store' = [store EXCEPT !.sessions = Del(@, id)]
    /\ sgh' = [sgh EXCEPT
                 !.removals = IF id \in DOMAIN store.sessions THEN @ + 1 ELSE @,
                 !.deleted = @ \cup {id},
                 !.last = [op |-> "Delete", id |-> id, before |-> store.sessions]]
    /\ UNCHANGED <<qvars, uvars, proc, tvars, hq, dex, sup, ws, lk, mvars, nstarted, canRes, sget, pvars>>

\* Count(), under s.mu.RLock
SessionStore_Count ==
    /\ sgh' = [sgh EXCEPT !.last = [op |-> "Count", n |-> Cardinality(DOMAIN store.sessions)]]
    /\ UNCHANGED <<qvars, uvars, proc, tvars, hq, dex, sup, ws, lk, mvars, nstarted, canRes, store, sget, pvars>>

(***************************************************************************)
(* captcha.PlacementManager                                                *)
(***************************************************************************)
NewPlacementManager(bgWidth, bgHeight, charWidth, charHeight) ==
    [placements |-> <<>>, bgWidth |-> bgWidth, bgHeight |-> bgHeight,
     charWidth |-> charWidth, charHeight |-> charHeight, maxRetries |-> 100,
     pc |-> "idle", retry |-> 0]
NoPlacementCalls == [placed |-> 0, wasReset |-> FALSE, last |-> NoRes]

PlacementIdle ==
    /\ pm = NewPlacementManager(1, 1, 1, 1)
    /\ pgh = NoPlacementCalls

Min(a, b) == IF a <= b THEN a ELSE b
Max(a, b) == IF a >= b THEN a ELSE b

\* Placement{X, Y, Width, Height}; Placement{} is the zero value
MkPlacement(x, y, w, h) == [X |-> x, Y |-> y, Width |-> w, Height |-> h]
ZeroPlacement == MkPlacement(0, 0, 0, 0)

\* Bounds(): image.Rect(X, Y, X+Width, Y+Height), which orders its corners
Bounds(p) ==
    [MinX |-> Min(p.X, p.X + p.Width), MaxX |-> Max(p.X, p.X + p.Width),
     MinY |-> Min(p.Y, p.Y + p.Height), MaxY |-> Max(p.Y, p.Y + p.Height)]
\* image.Rectangle.Empty and Overlaps
Empty(r) == r.MinX >= r.MaxX \/ r.MinY >= r.MaxY
Overlaps(r, t) ==
    /\ ~Empty(r) /\ ~Empty(t)
    /\ r.MinX < t.MaxX /\ t.MinX < r.MaxX
    /\ r.MinY < t.MaxY /\ t.MinY < r.MaxY
Intersects(p, other) == Overlaps(Bounds(p), Bounds(other))

\* variant of hasCollision that looks at the latest placement only
hasCollisionLastOnly(ps, candidate) ==
    Len(ps) > 0 /\ Intersects(candidate, ps[Len(ps)])

\* hasCollision(candidate): the range loop over pm.placements
hasCollision(ps, candidate) ==
    \E i \in 1..Len(ps) : Intersects(candidate, ps[i])

maxX == pm.bgWidth - pm.charWidth
maxY == pm.bgHeight - pm.charHeight

\* variant of the early return that records the zero placement
TryPlace_beginRecords ==
    /\ pm.pc = "idle"
    /\ Len(pm.placements) < MaxPlaced
    /\ IF maxX <= 0 \/ maxY <= 0
       THEN /\ pm' = [pm EXCEPT !.placements = Append(@, ZeroPlacement)]
            /\ pgh' = [pgh EXCEPT !.last = [op |-> "TryPlace", ok |-> FALSE,
                                            placement |-> ZeroPlacement,
                                            before |-> pm.placements, tries |-> 0]]
       ELSE /\ pm' = [pm EXCEPT !.pc = "loop", !.retry = 0]
            /\ pgh' = [pgh EXCEPT !.last = [op |-> "TryPlace_running",
                                            before |-> pm.placements]]
    /\ UNCHANGED <<qvars, uvars, proc, tvars, hq, dex, sup, ws, lk, mvars, nstarted, canRes, svars>>

\* TryPlace, up to the loop: if maxX <= 0 || maxY <= 0 { return Placement{}, false }
TryPlace_begin ==
    /\ pm.pc = "idle"
    /\ Len(pm.placements) < MaxPlaced
    /\ IF maxX <= 0 \/ maxY <= 0
       THEN /\ UNCHANGED pm
            /\ pgh' = [pgh EXCEPT !.last = [op |-> "TryPlace", ok |-> FALSE,
                                            placement |-> ZeroPlacement,
                                            before |-> pm.placements, tries |-> 0]]
       ELSE /\ pm' = [pm EXCEPT !.pc = "loop", !.retry = 0]
            /\ pgh' = [pgh EXCEPT !.last = [op |-> "TryPlace_running",
                                            before |-> pm.placements]]
    /\ UNCHANGED <<qvars, uvars, proc, tvars, hq, dex, sup, ws, lk, mvars, nstarted, canRes, svars>>

\* variant of the loop round that also draws maxX and maxY themselves
TryPlace_retryInclusive ==
    /\ pm.pc = "loop"
    /\ pm.retry < pm.maxRetries
    /\ \E x \in 0..maxX, y \in 0..maxY :
          LET candidate == MkPlacement(x, y, pm.charWidth, pm.charHeight)
          IN  IF ~hasCollision(pm.placements, candidate)
              THEN /\ pm' = [pm EXCEPT !.placements = Append(@, candidate),
                                       !.pc = "idle", !.retry = 0]
                   /\ pgh' = [pgh EXCEPT !.placed = @ + 1,
                                         !.last = [op |-> "TryPlace", ok |-> TRUE,
                                                   placement |-> candidate,
                                                   before |-> pm.placements,
                                                   tries |-> pm.retry + 1]]
              ELSE /\ pm' = [pm EXCEPT !.retry = @ + 1]
                   /\ UNCHANGED pgh
    /\ UNCHANGED <<qvars, uvars, proc, tvars, hq, dex, sup, ws, lk, mvars, nstarted, canRes, svars>>

\* one round of for retry := 0; retry < pm.maxRetries; retry++ with the
\* candidate rand.Intn(maxX), rand.Intn(maxY) draws
TryPlace_retry ==
    /\ pm.pc = "loop"
    /\ pm.retry < pm.maxRetries
    /\ \E x \in 0..(maxX - 1), y \in 0..(maxY - 1) :
          LET candidate == MkPlacement(x, y, pm.charWidth, pm.charHeight)
          IN  IF ~hasCollision(pm.placements, candidate)
              THEN /\ pm' = [pm EXCEPT !.placements = Append(@, candidate),
                                       !.pc = "idle", !.retry = 0]
                   /\ pgh' = [pgh EXCEPT !.placed = @ + 1,
                                         !.last = [op |-> "TryPlace", ok |-> TRUE,
                                                   placement |-> candidate,
                                                   before |-> pm.placements,
                                                   tries |-> pm.retry + 1]]
              ELSE /\ pm' = [pm EXCEPT !.retry = @ + 1]
                   /\ UNCHANGED pgh
    /\ UNCHANGED <<qvars, uvars, proc, tvars, hq, dex, sup, ws, lk, mvars, nstarted, canRes, svars>>

\* the loop ran out: return Placement{}, false
TryPlace_exhausted ==
    /\ pm.pc = "loop"
    /\ pm.retry >= pm.maxRetries
    /\ pm' = [pm EXCEPT !.pc = "idle", !.retry = 0]
    /\ pgh' = [pgh EXCEPT !.last = [op |-> "TryPlace", ok |-> FALSE,
                                    placement |-> ZeroPlacement,
                                    before |-> pgh.last.before, tries |-> pm.retry]]
    /\ UNCHANGED <<qvars, uvars, proc, tvars, hq, dex, sup, ws, lk, mvars, nstarted, canRes, svars>>

TryPlace == TryPlace_begin \/ TryPlace_retry \/ TryPlace_exhausted

\* PlacedCount()
PlacedCount ==
    /\ pm.pc = "idle"
    /\ pgh' = [pgh EXCEPT !.last = [op |-> "PlacedCount", n |-> Len(pm.placements)]]
    /\ UNCHANGED <<qvars, uvars, proc, tvars, hq, dex, sup, ws, lk, mvars, nstarted, canRes, svars, pm>>

\* Reset(): pm.placements = pm.placements[:0]
PlacementManager_Reset ==
    /\ pm.pc = "idle"
    /\ pm' = [pm EXCEPT !.placements = <<>>]
    /\ pgh' = [placed |-> 0, wasReset |-> TRUE, last |-> [op |-> "Reset"]]
    /\ UNCHANGED <<qvars, uvars, proc, tvars, hq, dex, sup, ws, lk, mvars, nstarted, canRes, svars>>

(***************************************************************************)
(* handler.WebSocketHandler and DinoHandler.Start                          *)
(*   ws.reader[c]: "none" before connection c exists, the user id while    *)
(*   handleMessages(user, c) reads from it, "done" after its deferred      *)
(*   cleanup ran. ws.stamp[c] is history: the stamp of the queue entry     *)
(*   that Connect added for c.                                             *)
(***************************************************************************)
\* goroutines of the lock view, each inside at most one operation at a time
Goroutines == {"g1", "g2"}
\* a goroutine that is in no operation
IdleCall == [op |-> "idle", user |-> "u1", steps |-> <<>>, pc |-> 0]
NoLocks == lk = [g \in Goroutines |-> IdleCall]

NoSockets == ws = [reader |-> [c \in ConnIds |-> "none"], stamp |-> [c \in ConnIds |-> 0]]

\* the session id SessionStore.Create draws for the user: a uuid of its own
SessionOf(u) == IF u = "u1" THEN "s1" ELSE "s2"

\* the user SessionStore.Create returns
CreatedUser(u) ==
    [MkUser(u, StatusWaiting, 0, 0, "", "", ZeroTime, NoConn) EXCEPT !.SessionID = SessionOf(u)]

ConnectedMsg(u) == [type |-> "connected", user_id |-> u]
YourTurnMsg == [type |-> "stage_change", status |-> StatusStage1Dino]

wframe == <<proc, tvars, hq, svars, pvars, dex, sup, lk, mvars, nstarted>>

\* Connect with the session of user u, upgraded to the new connection c:
\* user.Conn = conn; queue.Add(user.ID, conn); BroadcastPositions; welcome;
\* go handleMessages(user, conn)
WebSocketHandler_Connect(u, c) ==
    /\ ws.reader[c] = "none"
    /\ Add(users[u].ID, c)
    /\ users' = [users EXCEPT ![u].Conn = c]
    /\ conns' = WriteJSON(SendPositions(conns, queue', 1), c, ConnectedMsg(users[u].ID))
    /\ ws' = [ws EXCEPT !.reader[c] = u, !.stamp[c] = nextStamp + 1]
    /\ canRes' = [op |-> "Connect", id |-> u, conn |-> c, before |-> queue, after |-> queue']
    /\ UNCHANGED wframe

\* handleMessages(user, c): ReadMessage fails (the peer left or the
\* connection was closed) and the deferred cleanup runs:
\* queue.Remove(user.ID); BroadcastPositions; conn.Close()
WebSocketHandler_handleMessages(c) ==
    /\ ws.reader[c] \in UserIds
    /\ queue' = Removed(queue, users[ws.reader[c]].ID)
    /\ qres' = [op |-> "Remove", id |-> users[ws.reader[c]].ID, before |-> queue]
    /\ conns' = Close(SendPositions(conns, queue', 1), c)
    /\ ws' = [ws EXCEPT !.reader[c] = "done"]
    /\ canRes' = [op |-> "Cleanup", id |-> ws.reader[c], conn |-> c,
                  before |-> queue, after |-> queue']
    /\ UNCHANGED <<nextStamp, users, wframe>>

\* PromoteFirstUser: PopFront, tell the popped entry it is its turn, broadcast
WebSocketHandler_PromoteFirstUser ==
    /\ PopFront
    /\ conns' = SendPositions(IF Len(queue) > 0 /\ queue[1].Conn # NoConn
                              THEN WriteJSON(conns, queue[1].Conn, YourTurnMsg)
                              ELSE conns, queue', 1)
    /\ canRes' = [op |-> "PromoteFirstUser", before |-> queue, after |-> queue',
                  usersBefore |-> users]
    /\ UNCHANGED <<users, ws, wframe>>

\* DinoHandler.Start with the session cookie of user u
DinoHandler_Start(u) ==
    /\ IF users[u].Status # StatusWaiting
       THEN /\ canRes' = [op |-> "Start", id |-> u, promoted |-> FALSE,
                          error |-> users[u].Status # StatusStage1Dino,
                          before |-> queue, after |-> queue]
            /\ UNCHANGED <<qvars, users, conns>>
       ELSE /\ users' = [users EXCEPT ![u].Status = StatusStage1Dino]
            /\ IF hq
               THEN /\ queue' = Removed(queue, users[u].SessionID)
                    /\ qres' = [op |-> "Remove", id |-> users[u].SessionID, before |-> queue]
                    /\ conns' = SendPositions(conns, queue', 1)
               ELSE UNCHANGED <<queue, qres, conns>>
            /\ canRes' = [op |-> "Start", id |-> u, promoted |-> TRUE, error |-> FALSE,
                          before |-> queue, after |-> queue']
            /\ UNCHANGED nextStamp
    /\ UNCHANGED <<ws, wframe>>

(***************************************************************************)
(* delay.DelayExecutor                                                     *)
(*   timer: "nil" before the first call, "armed" after time.NewTimer,      *)
(*   "stopped" after timer.Stop() caught it, "fired" once the runtime has  *)
(*   sent on timer.C, "drained" once ExecuteWithCallback has received.     *)
(*   pc: the position of the goroutine inside ExecuteWithCallback.         *)
(*   run, calls, cancelPending, cancelInCall are history: the number of    *)
(*   calls begun, how often the callback of the current call ran, whether  *)
(*   Cancel returned while the delay of the current call was pending, and  *)
(*   whether it returned at all since the current call began.              *)
(***************************************************************************)
NewDelayExecutor ==
    [canceled |-> FALSE, timer |-> "nil", deadline |-> ZeroTime, delay |-> 0, pc |-> "idle",
     wasCanceled |-> FALSE, callback |-> FALSE, run |-> 0, calls |-> 0,
     cancelPending |-> FALSE, cancelInCall |-> FALSE, cancelEver |-> FALSE]

DelayIdle == dex = NewDelayExecutor

dframe == <<qvars, uvars, proc, tvars, hq, svars, pvars, sup, ws, lk, mon, mgh, nstarted, canRes>>

\* variant of the entry that leaves the canceled flag as it finds it
ExecuteWithCallback_beginKeepsFlag(delay, callback) ==
    /\ dex.pc \in {"idle", "done"}
    /\ dex.run < MaxRuns
    /\ dex' = [dex EXCEPT !.timer = "armed", !.deadline = now + delay,
                          !.delay = delay,
                          !.pc = "wait", !.callback = callback, !.run = @ + 1,
                          !.calls = 0, !.cancelPending = FALSE, !.cancelInCall = FALSE]
    /\ UNCHANGED <<dframe, now>>

\* e.canceled = false; e.timer = time.NewTimer(delay)
ExecuteWithCallback_begin(delay, callback) ==
    /\ dex.pc \in {"idle", "done"}
    /\ dex.run < MaxRuns
    /\ dex' = [dex EXCEPT !.canceled = FALSE, !.timer = "armed", !.deadline = now + delay,
                          !.delay = delay,
                          !.pc = "wait", !.callback = callback, !.run = @ + 1,
                          !.calls = 0, !.cancelPending = FALSE, !.cancelInCall = FALSE]
    /\ UNCHANGED <<dframe, now>>

\* the delay elapses: the runtime sends on timer.C
DelayElapses ==
    /\ dex.timer = "armed"
    /\ now >= dex.deadline
    /\ dex' = [dex EXCEPT !.timer = "fired"]
    /\ UNCHANGED <<dframe, now>>

\* <-e.timer.C
ExecuteWithCallback_receive ==
    /\ dex.pc = "wait"
    /\ dex.timer = "fired"
    /\ dex' = [dex EXCEPT !.timer = "drained", !.pc = "read"]
    /\ UNCHANGED <<dframe, now>>

\* wasCanceled := e.canceled, under the mutex
ExecuteWithCallback_read ==
    /\ dex.pc = "read"
    /\ dex' = [dex EXCEPT !.wasCanceled = dex.canceled, !.pc = "call"]
    /\ UNCHANGED <<dframe, now>>

\* if !wasCanceled && callback != nil { callback() }
ExecuteWithCallback_call ==
    /\ dex.pc = "call"
    /\ dex' = [dex EXCEPT !.calls = IF ~dex.wasCanceled /\ dex.callback THEN @ + 1 ELSE @,
                          !.pc = "done"]
    /\ UNCHANGED <<dframe, now>>

ExecuteWithCallback ==
    \/ \E delay \in 0..(MaxTime - now), callback \in BOOLEAN :
          ExecuteWithCallback_begin(delay, callback)
    \/ ExecuteWithCallback_receive
    \/ ExecuteWithCallback_read
    \/ ExecuteWithCallback_call

\* Cancel(): e.canceled = true; if e.timer != nil { e.timer.Stop() }
\* Stop catches an armed timer; whether it takes back a tick that was sent
\* and not yet received depends on the Go release the program is built with
DelayExecutor_Cancel ==
    /\ \E takesBack \in BOOLEAN :
          dex' = [dex EXCEPT !.canceled = TRUE,
                             !.timer = IF @ = "armed" \/ (@ = "fired" /\ takesBack)
                                       THEN "stopped" ELSE @,
                             !.cancelPending = @ \/ (dex.pc = "wait" /\ dex.timer = "armed"),
                             !.cancelInCall = @ \/ dex.pc \in {"wait", "read", "call"},
                             !.cancelEver = TRUE]
    /\ UNCHANGED <<dframe, now>>

\* the clock moves while a delay runs
DelayTock ==
    /\ now < MaxTime
    /\ now' = now + 1
    /\ UNCHANGED <<dframe, dex>>

(***************************************************************************)
(* A CaptchaTimeout instance on which Start is called more than once.      *)
(*   Each Start creates a timer with time.AfterFunc; the k-th timer runs   *)
(*   handleTimeout in the goroutine SupervisorTimers[k]. timer is the      *)
(*   index t.timer points to (0 for nil), state[k] the k-th timer: "none", *)
(*   "armed", "stopped" or "fired".                                        *)
(*   void[k] and ran are history: whether a Cancel or a later Start came   *)
(*   after the k-th Start, and which handlers passed the canceled test.    *)
(***************************************************************************)
SupervisorTimers == <<"captcha", "captcha2">>
TimerIndexes == 1..Len(SupervisorTimers)

NewCaptchaTimeout(qset) ==
    [queueSet |-> qset, running |-> FALSE, canceled |-> FALSE, timer |-> 0,
     state |-> [k \in TimerIndexes |-> "none"], started |-> 0,
     void |-> [k \in TimerIndexes |-> FALSE], ran |-> <<>>]

SupervisorIdle == sup = NewCaptchaTimeout(FALSE)

sframe == <<qvars, uvars, tvars, hq, svars, pvars, dex, ws, lk, mvars, nstarted, canRes>>

\* Start(): t.running = true; t.canceled = false; t.timer = time.AfterFunc(...)
\* the timer t.timer pointed to before is left as it is
Supervisor_Start ==
    /\ sup.started < Len(SupervisorTimers)
    /\ sup' = [sup EXCEPT !.running = TRUE, !.canceled = FALSE,
                          !.timer = sup.started + 1,
                          !.state[sup.started + 1] = "armed",
                          !.started = @ + 1,
                          !.void = [k \in TimerIndexes |-> k <= sup.started]]
    /\ UNCHANGED <<sframe, proc>>

\* Cancel(): t.canceled = true; t.running = false; if t.timer != nil { t.timer.Stop() }
Supervisor_Cancel ==
    /\ sup' = [sup EXCEPT !.canceled = TRUE, !.running = FALSE,
                          !.state = [k \in TimerIndexes |->
                                       IF k = sup.timer /\ @[k] = "armed"
                                       THEN "stopped" ELSE @[k]],
                          !.void = [k \in TimerIndexes |-> k <= sup.started]]
    /\ UNCHANGED <<sframe, proc>>

\* the k-th deadline elapses: the runtime runs t.handleTimeout in a new goroutine
Supervisor_fire(k) ==
    /\ sup.state[k] = "armed"
    /\ At(SupervisorTimers[k], "idle")
    /\ sup' = [sup EXCEPT !.state[k] = "fired"]
    /\ Goto(SupervisorTimers[k], "await", <<>>)
    /\ UNCHANGED sframe

\* handleTimeout, first critical section: return if canceled, else running = false
Supervisor_check(k) ==
    /\ At(SupervisorTimers[k], "await")
    /\ IF sup.canceled
       THEN /\ Goto(SupervisorTimers[k], "aborted", <<>>)
            /\ UNCHANGED sup
       ELSE /\ Begin(SupervisorTimers[k], "notify", <<>>)
            /\ sup' = [sup EXCEPT !.running = FALSE,
                                  !.ran = Append(@, [timer |-> k, void |-> sup.void[k]])]
    /\ UNCHANGED sframe

\* handleTimeout after the critical section: notify, reset, re-enqueue, close
Supervisor_effects(k) ==
    \/ /\ At(SupervisorTimers[k], "notify")
       /\ NotifyStep(SupervisorTimers[k], TimeoutMsg, "reset")
       /\ UNCHANGED <<qvars, users, tvars, hvars, mvars, nstarted, canRes>>
    \/ /\ At(SupervisorTimers[k], "reset")
       /\ ResetStep(SupervisorTimers[k], "enqueue")
       /\ UNCHANGED <<qvars, conns, tvars, hvars, mvars, nstarted, canRes>>
    \/ /\ At(SupervisorTimers[k], "enqueue")
       /\ EnqueueStep(SupervisorTimers[k], sup.queueSet, "close")
       /\ UNCHANGED <<qres, uvars, tvars, hvars, mvars, nstarted, canRes>>
    \/ CaptchaClose(SupervisorTimers[k])

Supervisor_handleTimeout(k) == Supervisor_check(k) \/ Supervisor_effects(k)

QuietUsers == [u \in UserIds |-> MkUser(u, StatusWaiting, 0, 0, "", "", ZeroTime, NoConn)]

\* everything but the queue, at rest
RestIdle ==
    /\ proc = [p \in ProcIds |-> IdleProc("u1")]
    /\ tmo = [t \in TimeoutIds |-> NewTimeout("u1", FALSE)]
    /\ tgh = [t \in TimeoutIds |-> NoCalls]
    /\ hq = FALSE
    /\ StoreIdle
    /\ PlacementIdle
    /\ mon = NewTokenMonitor(FALSE)
    /\ mgh = NoMonCalls
    /\ now = 1
    /\ nstarted = 0
    /\ DelayIdle
    /\ NoSockets
    /\ NoLocks
    /\ SupervisorIdle
    /\ canRes = NoRes

QueueInit ==
    /\ queue = <<>>
    /\ nextStamp = 0
    /\ qres = NoRes
    /\ users = QuietUsers
    /\ conns = FreshConns
    /\ RestIdle

QueueNext ==
    \/ \E id \in QueueIds, c \in ConnIds \cup {NoConn} : Add(id, c) /\ UNCHANGED nonq
    \/ \E id \in QueueIds, c \in ConnIds \cup {NoConn} : AddUser([ID |-> id, Conn |-> c]) /\ UNCHANGED nonq
    \/ \E id \in QueueIds : Remove(id) /\ UNCHANGED nonq
    \/ \E id \in QueueIds : GetPosition(id) /\ UNCHANGED nonq
    \/ QLen /\ UNCHANGED nonq
    \/ PopFront /\ UNCHANGED nonq

SpecQueue == QueueInit /\ [][QueueNext]_vars

(***************************************************************************)
(* The queue with broadcasts: entries with or without a connection, and    *)
(* connections whose writes may fail.                                      *)
(***************************************************************************)
BroadcastInit ==
    /\ queue = <<>>
    /\ nextStamp = 0
    /\ qres = NoRes
    /\ users = QuietUsers
    /\ \E bad \in SUBSET ConnIds :
          conns = [c \in ConnIds |-> [sent |-> <<>>, closed |-> 0, werr |-> c \in bad]]
    /\ RestIdle

BroadcastNext ==
    \/ \E id \in {"a", "b"}, c \in ConnIds \cup {NoConn} : Add(id, c) /\ UNCHANGED nonq
    \/ \E id \in {"a", "b"} : Remove(id) /\ UNCHANGED nonq
    \/ PopFront /\ UNCHANGED nonq
    \/ BroadcastPositions

SpecBroadcast == BroadcastInit /\ [][BroadcastNext]_vars

(***************************************************************************)
(* All failure paths on one user record: u1 holds connection c1 and is in  *)
(* the dino stage or registering; both supervisors are bound to u1 and the *)
(* monitor may watch u1 (one watch loop).                                  *)
(***************************************************************************)
Init ==
    /\ queue = <<>>
    /\ nextStamp = 0
    /\ qres = NoRes
    /\ \E st \in {StatusStage1Dino, StatusRegistering} :
          users = [u \in UserIds |->
                     IF u = "u1"
                     THEN MkUser(u, st, 2, 2, "fish1",
                                 IF st = StatusRegistering THEN "tok" ELSE "",
                                 IF st = StatusRegistering THEN 1 ELSE ZeroTime, "c1")
                     ELSE MkUser(u, StatusWaiting, 0, 0, "", "", ZeroTime, NoConn)]
    /\ conns = FreshConns
    /\ proc = [p \in ProcIds |-> IdleProc("u1")]
    /\ \E qs \in BOOLEAN :
          /\ tmo = [t \in TimeoutIds |-> NewTimeout("u1", qs)]
          /\ hq = qs
          /\ StoreIdle
          /\ PlacementIdle
          /\ mon = NewTokenMonitor(qs)
    /\ tgh = [t \in TimeoutIds |-> NoCalls]
    /\ mgh = NoMonCalls
    /\ now = 1
    /\ nstarted = 0
    /\ DelayIdle
    /\ NoSockets
    /\ NoLocks
    /\ SupervisorIdle
    /\ canRes = NoRes

\* arming a supervisor counts as entering a failure path
Arm(t) ==
    /\ ~tgh[t].started
    /\ Entered < MaxPaths

Next ==
    \/ Arm("captcha") /\ CaptchaTimeout_Start
    \/ CaptchaTimeout_Cancel
    \/ CaptchaTimeout_fire
    \/ CaptchaTimeout_handleTimeout
    \/ Arm("dino") /\ DinoTimeout_Start
    \/ DinoTimeout_Cancel
    \/ DinoTimeout_fire
    \/ DinoTimeout_handleTimeout
    \/ FailureHandler_HandleFailure
    \/ \E hit \in BOOLEAN : CaptchaVerify(hit, TRUE) /\ UNCHANGED canRes
    \/ CaptchaHandler_handleMaxAttempts
    \/ \E match \in BOOLEAN : OTPVerify(match) /\ UNCHANGED canRes
    \/ OTPHandler_handleMaxAttempts
    \/ RegisterSubmit /\ UNCHANGED canRes
    \/ RegisterHandler_handleFakeServerError
    \/ \E clear \in BOOLEAN : DinoHandler_Result(clear)
    \/ mgh.watches["u1"] = 0 /\ Watch("u1")
    \/ Unwatch("u1")
    \/ Stop
    \/ \E l \in LoopIds : Tick(l)
    \/ \E l \in LoopIds : watchUser(l)
    \/ \E l \in LoopIds : handleExpiration(l)

Spec == Init /\ [][Next]_vars

\* one failure path at a time: a goroutine moves only while the others rest
Resting == {"idle", "lock", "select", "done", "aborted", "stopped", "panic"}
Alone(p) == \A q \in ProcIds \ {p} : proc[q].pc \in Resting

SeqNext ==
    \/ Arm("captcha") /\ CaptchaTimeout_Start
    \/ CaptchaTimeout_Cancel
    \/ CaptchaTimeout_fire
    \/ Alone("captcha") /\ CaptchaTimeout_handleTimeout
    \/ Arm("dino") /\ DinoTimeout_Start
    \/ DinoTimeout_Cancel
    \/ DinoTimeout_fire
    \/ Alone("dino") /\ DinoTimeout_handleTimeout
    \/ Alone("HandleFailure") /\ FailureHandler_HandleFailure
    \/ Alone("CaptchaMax") /\ \E hit \in BOOLEAN : CaptchaVerify(hit, TRUE) /\ UNCHANGED canRes
    \/ Alone("CaptchaMax") /\ CaptchaHandler_handleMaxAttempts
    \/ Alone("OTPMax") /\ \E match \in BOOLEAN : OTPVerify(match) /\ UNCHANGED canRes
    \/ Alone("OTPMax") /\ OTPHandler_handleMaxAttempts
    \/ Alone("Register") /\ RegisterSubmit /\ UNCHANGED canRes
    \/ Alone("Register") /\ RegisterHandler_handleFakeServerError
    \/ Alone("DinoResult") /\ \E clear \in BOOLEAN : DinoHandler_Result(clear)
    \/ mgh.watches["u1"] = 0 /\ Watch("u1")
    \/ Unwatch("u1")
    \/ Stop
    \/ \E l \in LoopIds : Tick(l)
    \/ \E l \in LoopIds : Alone(l) /\ watchUser(l)
    \/ \E l \in LoopIds : Alone(l) /\ handleExpiration(l)

SpecSeq == Init /\ [][SeqNext]_vars

(***************************************************************************)
(* The HTTP handlers of one session, one request at a time: u1 in any      *)
(* status with any attempt counts below the maximum, with or without a     *)
(* connection; the handlers share one queue or have none set.              *)
(***************************************************************************)
HandlersInit ==
    /\ queue = <<>>
    /\ nextStamp = 0
    /\ qres = NoRes
    /\ \E st \in Statuses, ca \in 0..(MaxCaptchaAttempts - 1),
          oa \in 0..(MaxOTPAttempts - 1), c \in {"c1", NoConn} :
          users = [u \in UserIds |->
                     IF u = "u1"
                     THEN MkUser(u, st, ca, oa, "fish1",
                                 IF st = StatusRegistering THEN "tok" ELSE "",
                                 IF st = StatusRegistering THEN 1 ELSE ZeroTime, c)
                     ELSE MkUser(u, StatusWaiting, 0, 0, "", "", ZeroTime, NoConn)]
    /\ conns = FreshConns
    /\ proc = [p \in ProcIds |-> IdleProc("u1")]
    /\ tmo = [t \in TimeoutIds |-> NewTimeout("u1", FALSE)]
    /\ tgh = [t \in TimeoutIds |-> NoCalls]
    /\ hq \in BOOLEAN
    /\ StoreIdle
    /\ PlacementIdle
    /\ mon = NewTokenMonitor(FALSE)
    /\ mgh = NoMonCalls
    /\ now = 1
    /\ nstarted = 0
    /\ DelayIdle
    /\ NoSockets
    /\ NoLocks
    /\ SupervisorIdle
    /\ canRes = NoRes

HandlersNext ==
    \/ Alone("HandleFailure") /\ FailureHandler_HandleFailure
    \/ Alone("CaptchaMax") /\ \E hit, regen \in BOOLEAN : CaptchaHandler_Verify(hit, regen)
    \/ Alone("CaptchaMax") /\ CaptchaHandler_handleMaxAttempts
    \/ Alone("OTPMax") /\ OTPHandler_Send
    \/ Alone("OTPMax") /\ \E match \in BOOLEAN : OTPHandler_Verify(match)
    \/ Alone("OTPMax") /\ OTPHandler_handleMaxAttempts
    \/ Alone("Register") /\ \E token \in RequestTokens : RegisterHandler_Submit(token)
    \/ Alone("Register") /\ RegisterHandler_handleFakeServerError
    \/ Alone("DinoResult") /\ \E clear \in BOOLEAN : DinoHandler_Result(clear)

SpecHandlers == HandlersInit /\ [][HandlersNext]_vars

(***************************************************************************)
(* The same handlers as concurrent requests of one session: every request  *)
(* runs in its own goroutine on the shared user record, and two captcha    *)
(* verifications may be in flight at once.                                 *)
(***************************************************************************)
CaptchaRequests == {"CaptchaMax", "CaptchaMax2"}

RequestsNext ==
    \/ \E p \in CaptchaRequests, hit, regen \in BOOLEAN :
          /\ CaptchaVerifyBy(p, hit, regen)
          /\ canRes' = Answered(CaptchaVerifyResponse(UserOf(p), hit, regen))
    \/ \E p \in CaptchaRequests : RequeuePath(p, FailureMsg("captcha"))
    \/ OTPHandler_Send
    \/ \E match \in BOOLEAN : OTPHandler_Verify(match)
    \/ OTPHandler_handleMaxAttempts

SpecRequests == HandlersInit /\ [][RequestsNext]_vars

(***************************************************************************)
(* Two CaptchaTimeout instances, one per user, each armed at most once,    *)
(* sharing the waiting queue (or having none set); the queue may already   *)
(* hold another visitor.                                                   *)
(***************************************************************************)
CaptchaInstances == {"captcha", "captcha2"}
BoundUser(t) == IF t = "captcha" THEN "u1" ELSE "u2"

CaptchaQueueInit ==
    /\ \E occupied \in BOOLEAN :
          /\ queue = IF occupied THEN Appended(<<>>, "a", NoConn, 1) ELSE <<>>
          /\ nextStamp = IF occupied THEN 1 ELSE 0
    /\ qres = NoRes
    /\ \E c1 \in {"c1", NoConn}, c2 \in {"c2", NoConn} :
          users = [u \in UserIds |->
                     MkUser(u, StatusStage2Captcha, 1, 0, "", "", ZeroTime,
                            IF u = "u1" THEN c1 ELSE c2)]
    /\ conns = FreshConns
    /\ proc = [p \in ProcIds |-> IdleProc(BoundUser(p))]
    /\ \E qs \in [CaptchaInstances -> BOOLEAN] :
          tmo = [t \in TimeoutIds |->
                   NewTimeout(BoundUser(t), t \in CaptchaInstances /\ qs[t])]
    /\ tgh = [t \in TimeoutIds |-> NoCalls]
    /\ hq = FALSE
    /\ StoreIdle
    /\ PlacementIdle
    /\ mon = NewTokenMonitor(FALSE)
    /\ mgh = NoMonCalls
    /\ now = 1
    /\ nstarted = 0
    /\ DelayIdle
    /\ NoSockets
    /\ NoLocks
    /\ SupervisorIdle
    /\ canRes = NoRes

CaptchaQueueNext ==
    \E t \in CaptchaInstances :
        \/ ~tgh[t].started /\ TimeoutStart(t)
        \/ TimeoutCancel(t)
        \/ TimerFire(t)
        \/ CaptchaTimeout_handleTimeoutOf(t)

SpecCaptchaQueue == CaptchaQueueInit /\ [][CaptchaQueueNext]_vars

(***************************************************************************)
(* The stage table: user records in any status string, transition checks   *)
(* and executions with any target.                                         *)
(***************************************************************************)
StageInit ==
    /\ queue = <<>>
    /\ nextStamp = 0
    /\ qres = NoRes
    /\ \E s1 \in StageValues, s2 \in StageValues, busy \in BOOLEAN :
          users = [u \in UserIds |->
                     IF u = "u1"
                     THEN IF busy THEN MkUser(u, s1, 2, 1, "fish2", "tok1", 2, "c1")
                                 ELSE MkUser(u, s1, 0, 0, "", "", ZeroTime, "c1")
                     ELSE MkUser(u, s2, 1, 1, "fish1", "", ZeroTime, NoConn)]
    /\ conns = FreshConns
    /\ proc = [p \in ProcIds |-> IdleProc("u1")]
    /\ tmo = [t \in TimeoutIds |-> NewTimeout("u1", FALSE)]
    /\ tgh = [t \in TimeoutIds |-> NoCalls]
    /\ hq = FALSE
    /\ StoreIdle
    /\ PlacementIdle
    /\ mon = NewTokenMonitor(FALSE)
    /\ mgh = NoMonCalls
    /\ now = 0
    /\ nstarted = 0
    /\ DelayIdle
    /\ NoSockets
    /\ NoLocks
    /\ SupervisorIdle
    /\ canRes = NoRes

StageNext ==
    \/ \E id \in UserIds, to \in StageValues : TransitionManager_CanTransition(id, to)
    \/ \E id \in UserIds, to \in StageValues : TransitionManager_Execute(id, to)
    \/ \E id \in UserIds : User_ResetToWaiting(id)

SpecStage == StageInit /\ [][StageNext]_vars

(***************************************************************************)
(* The session store, without TTL or with a TTL of one clock unit, used by *)
(* concurrent callers while time passes.                                   *)
(***************************************************************************)
SessionInit ==
    /\ queue = <<>>
    /\ nextStamp = 0
    /\ qres = NoRes
    /\ users = QuietUsers
    /\ conns = FreshConns
    /\ proc = [p \in ProcIds |-> IdleProc("u1")]
    /\ tmo = [t \in TimeoutIds |-> NewTimeout("u1", FALSE)]
    /\ tgh = [t \in TimeoutIds |-> NoCalls]
    /\ hq = FALSE
    /\ mon = NewTokenMonitor(FALSE)
    /\ mgh = NoMonCalls
    /\ now = 0
    /\ nstarted = 0
    /\ DelayIdle
    /\ NoSockets
    /\ NoLocks
    /\ SupervisorIdle
    /\ canRes = NoRes
    /\ \E ttl \in {0, 1} : store = NewSessionStoreWithExpiry(ttl)
    /\ sget = [g \in GetterIds |-> IdleGetter]
    /\ sgh = NoSessionCalls
    /\ PlacementIdle

SessionNext ==
    \/ SessionStore_Create
    \/ \E g \in GetterIds, id \in KnownIds : SessionStore_Get_read(g, id)
    \/ \E g \in GetterIds : SessionStore_Get(g)
    \/ \E id \in KnownIds : SessionStore_Delete(id)
    \/ SessionStore_Count
    \/ Tock

SpecSession == SessionInit /\ [][SessionNext]_vars

(***************************************************************************)
(* The front door: two users with a session each connect, are promoted,    *)
(* and hang up.                                                            *)
(***************************************************************************)
AdmissionInit ==
    /\ queue = <<>>
    /\ nextStamp = 0
    /\ qres = NoRes
    /\ users = [u \in UserIds |-> CreatedUser(u)]
    /\ conns = FreshConns
    /\ proc = [p \in ProcIds |-> IdleProc("u1")]
    /\ \E qs \in BOOLEAN :
          /\ tmo = [t \in TimeoutIds |-> NewTimeout("u1", qs)]
          /\ hq = qs
    /\ tgh = [t \in TimeoutIds |-> NoCalls]
    /\ StoreIdle
    /\ PlacementIdle
    /\ DelayIdle
    /\ NoSockets
    /\ NoLocks
    /\ SupervisorIdle
    /\ mon = NewTokenMonitor(FALSE)
    /\ mgh = NoMonCalls
    /\ now = 1
    /\ nstarted = 0
    /\ canRes = NoRes

AdmissionNext ==
    \/ \E u \in UserIds, c \in ConnIds : WebSocketHandler_Connect(u, c)
    \/ \E c \in ConnIds : WebSocketHandler_handleMessages(c)
    \/ WebSocketHandler_PromoteFirstUser
    \/ \E u \in UserIds : DinoHandler_Start(u)

SpecAdmission == AdmissionInit /\ [][AdmissionNext]_vars

(***************************************************************************)
(* One user from the front door to the captcha stage and back: u1          *)
(* connects (and reconnects), is promoted, reaches the captcha stage, and  *)
(* the captcha deadline fires, re-enqueues it and closes its connection.   *)
(***************************************************************************)
RequeueNext ==
    \/ \E c \in ConnIds : WebSocketHandler_Connect("u1", c)
    \/ \E c \in ConnIds : WebSocketHandler_handleMessages(c)
    \/ WebSocketHandler_PromoteFirstUser
    \/ DinoHandler_Start("u1")
    \/ /\ users["u1"].Status = StatusStage1Dino
       /\ TransitionManager_Execute("u1", StatusStage2Captcha)
    \/ /\ UserOf("captcha").Status = StatusStage2Captcha
       /\ Arm("captcha")
       /\ CaptchaTimeout_Start
    \/ CaptchaTimeout_fire
    \/ CaptchaTimeout_handleTimeout

SpecRequeue == AdmissionInit /\ [][RequeueNext]_vars

(***************************************************************************)
(* One user from its creation on: every operation that writes the Status   *)
(* or a stage-scoped field, one request at a time, in any order.           *)
(***************************************************************************)
LifecycleNext ==
    \/ DinoHandler_Start("u1")
    \/ Alone("DinoResult") /\ \E clear \in BOOLEAN : DinoHandler_Result(clear)
    \/ \E to \in Statuses : TransitionManager_Execute("u1", to)
    \/ Alone("CaptchaMax") /\ \E hit \in BOOLEAN : CaptchaHandler_Verify(hit, TRUE)
    \/ Alone("CaptchaMax") /\ CaptchaHandler_handleMaxAttempts
    \/ Alone("OTPMax") /\ OTPHandler_Send
    \/ Alone("OTPMax") /\ \E match \in BOOLEAN : OTPHandler_Verify(match)
    \/ Alone("OTPMax") /\ OTPHandler_handleMaxAttempts
    \/ Alone("Register") /\ \E token \in RequestTokens : RegisterHandler_Submit(token)
    \/ Alone("Register") /\ RegisterHandler_handleFakeServerError
    \/ Alone("HandleFailure") /\ FailureHandler_HandleFailure

SpecLifecycle == AdmissionInit /\ [][LifecycleNext]_vars

(***************************************************************************)
(* The token monitor next to another failure path: u1 is registering with  *)
(* a token that is still valid and is watched; the register handler's      *)
(* failure path may reset u1 before the token expires.                     *)
(***************************************************************************)
MonitorInit ==
    /\ queue = <<>>
    /\ nextStamp = 0
    /\ qres = NoRes
    /\ \E c \in {"c1", NoConn} :
          users = [u \in UserIds |->
                     IF u = "u1"
                     THEN MkUser(u, StatusRegistering, 0, 0, "", "tok", 1 + TokenExpiry, c)
                     ELSE MkUser(u, StatusWaiting, 0, 0, "", "", ZeroTime, NoConn)]
    /\ conns = FreshConns
    /\ proc = [p \in ProcIds |-> IdleProc("u1")]
    /\ tmo = [t \in TimeoutIds |-> NewTimeout("u1", FALSE)]
    /\ tgh = [t \in TimeoutIds |-> NoCalls]
    /\ \E qs \in BOOLEAN :
          /\ hq = qs
          /\ mon = NewTokenMonitor(qs)
    /\ StoreIdle
    /\ PlacementIdle
    /\ DelayIdle
    /\ NoSockets
    /\ NoLocks
    /\ SupervisorIdle
    /\ mgh = NoMonCalls
    /\ now = 1
    /\ nstarted = 0
    /\ canRes = NoRes

MonitorNext ==
    \/ mgh.watches["u1"] = 0 /\ Watch("u1")
    \/ Unwatch("u1")
    \/ Tock
    \/ \E l \in LoopIds : Tick(l)
    \/ \E l \in LoopIds : watchUser(l)
    \/ \E l \in LoopIds : handleExpiration(l)
    \/ RegisterSubmit /\ UNCHANGED canRes
    \/ RegisterHandler_handleFakeServerError

SpecMonitor == MonitorInit /\ [][MonitorNext]_vars

(***************************************************************************)
(* One CaptchaTimeout instance for u1 under any order of Start and Cancel  *)
(* calls, its timers firing and their handlers running.                    *)
(***************************************************************************)
SupervisorInit ==
    /\ queue = <<>>
    /\ nextStamp = 0
    /\ qres = NoRes
    /\ \E ca \in {0, 2}, c1 \in {"c1", NoConn} :
          users = [u \in UserIds |->
                     IF u = "u1"
                     THEN MkUser(u, StatusStage2Captcha, ca, 0, "", "", ZeroTime, c1)
                     ELSE MkUser(u, StatusWaiting, 0, 0, "", "", ZeroTime, NoConn)]
    /\ conns = FreshConns
    /\ proc = [p \in ProcIds |-> IdleProc("u1")]
    /\ tmo = [t \in TimeoutIds |-> NewTimeout("u1", FALSE)]
    /\ tgh = [t \in TimeoutIds |-> NoCalls]
    /\ hq = FALSE
    /\ StoreIdle
    /\ PlacementIdle
    /\ DelayIdle
    /\ NoSockets
    /\ NoLocks
    /\ \E qs \in BOOLEAN : sup = NewCaptchaTimeout(qs)
    /\ mon = NewTokenMonitor(FALSE)
    /\ mgh = NoMonCalls
    /\ now = 1
    /\ nstarted = 0
    /\ canRes = NoRes

SupervisorNext ==
    \/ Supervisor_Start
    \/ Supervisor_Cancel
    \/ \E k \in TimerIndexes : Supervisor_fire(k)
    \/ \E k \in TimerIndexes : Supervisor_handleTimeout(k)

SpecSupervisor == SupervisorInit /\ [][SupervisorNext]_vars

(***************************************************************************)
(* One DelayExecutor: a goroutine calls ExecuteWithCallback, one call      *)
(* after the other, while Cancel may be called from elsewhere at any time. *)
(***************************************************************************)
DelayInit ==
    /\ queue = <<>>
    /\ nextStamp = 0
    /\ qres = NoRes
    /\ users = QuietUsers
    /\ conns = FreshConns
    /\ RestIdle

DelayNext ==
    \/ ExecuteWithCallback
    \/ DelayElapses
    \/ DelayExecutor_Cancel
    \/ DelayTock

SpecDelay == DelayInit /\ [][DelayNext]_vars

\* the clock runs, the runtime delivers an elapsed timer, and the calling
\* goroutine is scheduled
SpecDelayFair ==
    /\ DelayInit /\ [][DelayNext]_vars
    /\ WF_vars(DelayTock) /\ WF_vars(DelayElapses) /\ WF_vars(ExecuteWithCallback_receive)
    /\ WF_vars(ExecuteWithCallback_read) /\ WF_vars(ExecuteWithCallback_call)

(***************************************************************************)
(* Register tokens of one user: issued, validated with any session id and  *)
(* token at any instant, and wiped by ResetToWaiting.                      *)
(***************************************************************************)
SessionNames == {"u1", "u2"}
CandidateTokens == {"", "tok", "t1", "t2", "t3"}

ValidateInit ==
    /\ queue = <<>>
    /\ nextStamp = 0
    /\ qres = NoRes
    /\ \E tok \in {"", "tok"}, exp \in {ZeroTime, 1, 2} :
          users = [u \in UserIds |->
                     IF u = "u1"
                     THEN MkUser(u, StatusRegistering, 0, 0, "", tok, exp, NoConn)
                     ELSE MkUser(u, StatusWaiting, 0, 0, "", "", ZeroTime, NoConn)]
    /\ conns = FreshConns
    /\ proc = [p \in ProcIds |-> IdleProc("u1")]
    /\ tmo = [t \in TimeoutIds |-> NewTimeout("u1", FALSE)]
    /\ tgh = [t \in TimeoutIds |-> NoCalls]
    /\ hq = FALSE
    /\ StoreIdle
    /\ PlacementIdle
    /\ mon = NewTokenMonitor(FALSE)
    /\ mgh = NoMonCalls
    /\ now = 1
    /\ nstarted = 0
    /\ DelayIdle
    /\ NoSockets
    /\ NoLocks
    /\ SupervisorIdle
    /\ canRes = NoRes

ValidateNext ==
    \/ GenerateRegisterToken("u1")
    \/ \E sid \in SessionNames, tok \in CandidateTokens : Validate("u1", sid, tok)
    \/ User_ResetToWaiting("u1")
    \/ Tock

SpecValidate == ValidateInit /\ [][ValidateNext]_vars

(***************************************************************************)
(* One PlacementManager used by one caller: a 5x5 container with 2x2       *)
(* items, the 10x10 container with 50x50 items, an exact fit, and items    *)
(* without area.                                                           *)
(***************************************************************************)
PlacementConfigs == {<<5, 5, 2, 2>>, <<10, 10, 50, 50>>, <<2, 2, 2, 2>>, <<2, 2, 0, 0>>}

PlacementInit ==
    /\ queue = <<>>
    /\ nextStamp = 0
    /\ qres = NoRes
    /\ users = QuietUsers
    /\ conns = FreshConns
    /\ proc = [p \in ProcIds |-> IdleProc("u1")]
    /\ tmo = [t \in TimeoutIds |-> NewTimeout("u1", FALSE)]
    /\ tgh = [t \in TimeoutIds |-> NoCalls]
    /\ hq = FALSE
    /\ mon = NewTokenMonitor(FALSE)
    /\ mgh = NoMonCalls
    /\ now = 0
    /\ nstarted = 0
    /\ DelayIdle
    /\ NoSockets
    /\ NoLocks
    /\ SupervisorIdle
    /\ canRes = NoRes
    /\ StoreIdle
    /\ \E c \in PlacementConfigs : pm = NewPlacementManager(c[1], c[2], c[3], c[4])
    /\ pgh = NoPlacementCalls

PlacementNext ==
    \/ TryPlace
    \/ PlacedCount
    \/ PlacementManager_Reset

SpecPlacement == PlacementInit /\ [][PlacementNext]_vars

(***************************************************************************)
(* The token monitor on two registering users. u1's token was issued at    *)
(* instant 0, u2's expires at instant 1. The ticker and the goroutines are *)
(* scheduled fairly, and a select with a ready case does not ignore that   *)
(* case forever.                                                           *)
(***************************************************************************)
TokenInit ==
    /\ queue = <<>>
    /\ nextStamp = 0
    /\ qres = NoRes
    /\ \E c \in {"c1", NoConn} :
          users = [u \in UserIds |->
                     IF u = "u1"
                     THEN MkUser(u, StatusRegistering, 0, 0, "", "tok1", 0 + TokenExpiry, c)
                     ELSE MkUser(u, StatusRegistering, 0, 0, "", "tok2", 1, "c2")]
    /\ conns = FreshConns
    /\ proc = [p \in ProcIds |-> IdleProc("u1")]
    /\ tmo = [t \in TimeoutIds |-> NewTimeout("u1", FALSE)]
    /\ tgh = [t \in TimeoutIds |-> NoCalls]
    /\ hq = FALSE
    /\ StoreIdle
    /\ PlacementIdle
    /\ \E qs \in BOOLEAN : mon = NewTokenMonitor(qs)
    /\ mgh = NoMonCalls
    /\ now = 0
    /\ nstarted = 0
    /\ DelayIdle
    /\ NoSockets
    /\ NoLocks
    /\ SupervisorIdle
    /\ canRes = NoRes

LoopFairness ==
    \A l \in LoopIds :
        /\ WF_vars(Tick(l))
        /\ WF_vars(watchUser_stop(l))
        /\ WF_vars(watchUser_tick(l))
        /\ WF_vars(handleExpiration(l))

TokenNext ==
    \/ \E u \in UserIds : Watch(u)
    \/ \E u \in UserIds : Unwatch(u)
    \/ Stop
    \/ Tock
    \/ \E l \in LoopIds : Tick(l)
    \/ \E l \in LoopIds : watchUser(l)
    \/ \E l \in LoopIds : handleExpiration(l)

SpecToken == TokenInit /\ [][TokenNext]_vars /\ LoopFairness

\* each user is watched at most once
TokenOnceNext ==
    \/ \E u \in UserIds : mgh.watches[u] = 0 /\ Watch(u)
    \/ \E u \in UserIds : Unwatch(u)
    \/ Stop
    \/ Tock
    \/ \E l \in LoopIds : Tick(l)
    \/ \E l \in LoopIds : watchUser(l)
    \/ \E l \in LoopIds : handleExpiration(l)

SpecTokenOnce == TokenInit /\ [][TokenOnceNext]_vars /\ LoopFairness

(***************************************************************************)
(* The timeout supervisors on their own: a CaptchaTimeout armed for u1 and *)
(* a DinoTimeout armed for u2, each handle armed once (created on          *)
(* challenge entry, used for one deadline), sharing only the queue.        *)
(***************************************************************************)
TimeoutInit ==
    /\ queue = <<>>
    /\ nextStamp = 0
    /\ qres = NoRes
    /\ \E ca \in {0, 2}, c1 \in {"c1", NoConn}, c2 \in {"c2", NoConn} :
          users = [u \in UserIds |->
                     IF u = "u1"
                     THEN MkUser(u, StatusStage2Captcha, ca, 0, "", "", ZeroTime, c1)
                     ELSE MkUser(u, StatusStage1Dino, 0, 1, "", "", ZeroTime, c2)]
    /\ conns = FreshConns
    /\ proc = [p \in ProcIds |-> IdleProc(IF p = "dino" THEN "u2" ELSE "u1")]
    /\ \E qs \in BOOLEAN :
          tmo = [t \in TimeoutIds |-> NewTimeout(IF t = "dino" THEN "u2" ELSE "u1", qs)]
    /\ tgh = [t \in TimeoutIds |-> NoCalls]
    /\ hq = FALSE
    /\ StoreIdle
    /\ PlacementIdle
    /\ mon = NewTokenMonitor(FALSE)
    /\ mgh = NoMonCalls
    /\ now = 1
    /\ nstarted = 0
    /\ DelayIdle
    /\ NoSockets
    /\ NoLocks
    /\ SupervisorIdle
    /\ canRes = NoRes

TimeoutNext ==
    \/ ~tgh["captcha"].started /\ CaptchaTimeout_Start
    \/ CaptchaTimeout_Cancel
    \/ CaptchaTimeout_fire
    \/ CaptchaTimeout_handleTimeout
    \/ ~tgh["dino"].started /\ DinoTimeout_Start
    \/ DinoTimeout_Cancel
    \/ DinoTimeout_fire
    \/ DinoTimeout_handleTimeout

SpecTimeout == TimeoutInit /\ [][TimeoutNext]_vars

\* the runtime fires an armed timer, and runs a started handler to its end
SpecTimeoutFair ==
    /\ TimeoutInit /\ [][TimeoutNext]_vars
    /\ WF_vars(CaptchaTimeout_fire) /\ WF_vars(CaptchaTimeout_handleTimeout)
    /\ WF_vars(DinoTimeout_fire) /\ WF_vars(DinoTimeout_handleTimeout)

(***************************************************************************)
(* Properties                                                              *)
(***************************************************************************)
Stamps(s) == {s[i].stamp : i \in 1..Len(s)}
HasId(s, id) == \E i \in 1..Len(s) : s[i].ID = id

\* C1: the queue is strict FIFO. The entries always stand in insertion
\* order, Remove takes out nothing but the first entry with the id, and
\* GetPosition(id) returns (1-indexed rank of the first entry with that id,
\* true), or (0, false) when no entry has the id.
C1_QueueFIFO ==
    /\ \A i, j \in 1..Len(queue) : i < j => queue[i].stamp < queue[j].stamp
    /\ qres.op = "Remove" =>
         /\ Stamps(queue) \subseteq Stamps(qres.before)
         /\ Cardinality(Stamps(qres.before) \ Stamps(queue)) =
                IF HasId(qres.before, qres.id) THEN 1 ELSE 0
         /\ \A i \in 1..Len(qres.before) :
                (qres.before[i].stamp \notin Stamps(queue)) =>
                    /\ qres.before[i].ID = qres.id
                    /\ \A k \in 1..(i - 1) : qres.before[k].ID # qres.id
    /\ qres.op = "GetPosition" =>
         IF HasId(queue, qres.id)
         THEN /\ qres.found
              /\ qres.pos \in 1..Len(queue)
              /\ queue[qres.pos].ID = qres.id
              /\ \A k \in 1..(qres.pos - 1) : queue[k].ID # qres.id
         ELSE qres.pos = 0 /\ ~qres.found

\* add(a); add(b); add(c); remove(b) happened and position(c) returned 2
C1_Witness ==
    /\ Len(queue) = 2
    /\ queue[1].ID = "a" /\ queue[1].stamp = 1
    /\ queue[2].ID = "c" /\ queue[2].stamp = 3
    /\ qres.op = "GetPosition" /\ qres.id = "c" /\ qres.pos = 2 /\ qres.found

\* the side effects of a fire are absent for the user of timeout t
NoFireEffects(t) ==
    LET u == tmo[t].user
    IN  /\ proc[t].pc \in {"idle", "lock", "aborted"}
        /\ proc[t].log = <<>>
        /\ users[u].Status # StatusWaiting
        /\ ~HasId(queue, u)
        /\ \A c \in ConnIds : c = tgh[t].conn => conns[c].sent = <<>> /\ conns[c].closed = 0

\* C2: cancel wins. Once Cancel() has returned before handleTimeout read the
\* canceled flag, no failure notification is sent, the user is not reset,
\* nothing is enqueued and the connection is not closed.
C2_CancelWins == \A t \in TimeoutIds : tgh[t].cancelWon => NoFireEffects(t)

\* the timer had already fired, Cancel got the mutex first, the handler gave up
C2_Witness ==
    \E t \in TimeoutIds :
        tgh[t].cancelWon /\ tmo[t].timer = "fired" /\ proc[t].pc = "aborted"

\* the result of a completed fire on the user of timeout t
FireComplete(t) ==
    LET u == tmo[t].user
        c == tgh[t].conn
    IN  /\ proc[t].pc = "done"
        /\ c \in ConnIds
        /\ users[u].Status = StatusWaiting
        /\ users[u].CaptchaAttempts = 0 /\ users[u].OTPAttempts = 0
        /\ conns[c].sent = <<FailureMsg("timeout")>>
        /\ conns[c].closed = 1

\* C3: a timeout started on a user with a connection and never canceled
\* leads to exactly one failure notification with redirect delay 3, the user
\* Waiting with both attempt counters zero, and the connection closed once.
C3_FireCorrect ==
    \A t \in TimeoutIds :
        (tgh[t].started /\ tgh[t].conn # NoConn)
            ~> (tgh[t].cancelCalled \/ FireComplete(t))

C3_Witness ==
    \E t \in TimeoutIds :
        /\ tgh[t].started /\ tgh[t].conn # NoConn /\ ~tgh[t].cancelCalled
        /\ FireComplete(t)
        /\ conns[tgh[t].conn].sent[1].redirect_delay = 3

Without(s, ev) == SelectSeq(s, LAMBDA e : e # ev)

\* C6: after a fire completes the user's connection reference is nil and the
\* connection held at Start has been closed; the fire went notification,
\* reset, optional re-enqueue, close-and-null.
C6_FireClosesAndNulls ==
    \A t \in TimeoutIds :
        (proc[t].pc = "done" /\ tgh[t].conn # NoConn) =>
            /\ users[tmo[t].user].Conn = NoConn
            /\ conns[tgh[t].conn].closed >= 1
            /\ Without(Without(proc[t].log, "null"), "enqueue")
                   = <<"notify", "reset", "close">>



Count(s, ev) == Len(SelectSeq(s, LAMBDA e : e = ev))

\* C4: under any interleaving of the failure paths on one user record with
\* one connection, Close() is invoked on that connection at most once.
C4_CloseAtMostOnce == \A c \in ConnIds : conns[c].closed <= 1

\* C5: every finished execution of a failure path that reset a user who held
\* a connection on entry sent exactly one notification and closed the
\* connection exactly once.
C5_ResetPaired ==
    \A p \in ProcIds :
        (/\ proc[p].pc = "done"
         /\ proc[p].held # NoConn
         /\ Count(proc[p].log, "reset") = 1)
        => (/\ Count(proc[p].log, "notify") = 1
            /\ Count(proc[p].log, "close") = 1)


IsPrefix(a, b) == Len(a) <= Len(b) /\ SubSeq(b, 1, Len(a)) = a

\* the side effects of one expiry on a monitor with a queue and a user with a
\* connection
FullExpiry == <<"notify", "close", "reset", "enqueue">>

\* what handleExpiration does for loop l: notification and close when the
\* user held a connection, the reset, the enqueue when a queue was set
ExpiryEffects(l) ==
    (IF proc[l].held # NoConn THEN <<"notify", "close">> ELSE <<>>)
        \o <<"reset">>
        \o (IF mon.queueSet THEN <<"enqueue">> ELSE <<>>)

ExpiryInOrder ==
    \A l \in LoopIds :
        /\ IsPrefix(proc[l].log, ExpiryEffects(l))
        /\ proc[l].pc = "done" =>
              /\ proc[l].log = ExpiryEffects(l)
              /\ proc[l].held # NoConn =>
                    /\ conns[proc[l].held].sent = <<TokenExpiredMsg>>
                    /\ conns[proc[l].held].closed = 1
              /\ mon.queueSet => HasId(queue, proc[l].user)

LoopStaysDone ==
    \A l \in LoopIds : proc[l].pc = "done" => proc'[l] = proc[l]

ExpiryHappens ==
    \A l \in LoopIds :
        (proc[l].pc = "select" /\ IsTokenExpired(UserOf(l), now))
            ~> (\/ proc[l].pc = "done"
                \/ mgh.unwatched[proc[l].user]
                \/ mgh.stopCalled)

C8_UnwatchRaceFree ==
    \A l \in LoopIds : mgh.uwon[l] => proc[l].log = <<>>

\* C9: after Stop(), every watch loop that was started and had not fired
\* performs no expiry side effect and eventually terminates.
C9_StopStopsAll ==
    /\ [](\A l \in LoopIds : mgh.swon[l] => proc[l].log = <<>>)
    /\ \A l \in LoopIds : mgh.swon[l] ~> (proc[l].pc = "stopped")

\* the fixed adjacency table of the stage machine
StageTable ==
    {<<StatusWaiting, StatusStage1Dino>>,
     <<StatusStage1Dino, StatusStage2Captcha>>, <<StatusStage1Dino, StatusWaiting>>,
     <<StatusStage2Captcha, StatusRegistering>>, <<StatusStage2Captcha, StatusWaiting>>,
     <<StatusRegistering, StatusWaiting>>}

\* C10: CanTransition(user, target) is true iff target is in the adjacency
\* table entry of user.Status; a status outside the enum allows nothing.
C10_CanTransitionTable ==
    canRes.op = "CanTransition" =>
        /\ canRes.valid = (<<canRes.from, canRes.to>> \in StageTable)
        /\ canRes.from = StatusUnknown => ~canRes.valid
        /\ (canRes.from \in Statuses \ {StatusWaiting} /\ canRes.to = StatusWaiting)
              => canRes.valid

\* a waiting user was refused the jump to registering
C10_Witness ==
    /\ canRes.op = "CanTransition"
    /\ canRes.from = StatusWaiting
    /\ canRes.to = StatusRegistering
    /\ ~canRes.valid


\* C11: Execute on an edge outside the table returns INVALID_TRANSITION,
\* leaves every field of the user record as it was and sends nothing.
C11_InvalidExecuteNoEffect ==
    (canRes.op = "Execute" /\ <<canRes.from, canRes.to>> \notin StageTable) =>
        /\ ~canRes.valid
        /\ canRes.code = "INVALID_TRANSITION"
        /\ users = [users EXCEPT ![canRes.id] = canRes.before]
        /\ conns = canRes.sent

\* a user with a connection was refused an edge outside the table
C11_Witness ==
    /\ canRes.op = "Execute"
    /\ canRes.code = "INVALID_TRANSITION"
    /\ canRes.from = StatusWaiting /\ canRes.to = StatusRegistering
    /\ canRes.before.Conn # NoConn

\* C12: Execute on an edge of the table sets Status to the target, changes
\* no other field, and appends exactly one stage_change message with
\* stage = target to the user's connection if there is one; no connection
\* is otherwise written or closed.
C12_ValidExecuteFrame ==
    (canRes.op = "Execute" /\ <<canRes.from, canRes.to>> \in StageTable) =>
        LET c == canRes.before.Conn
        IN  /\ canRes.valid /\ canRes.code = ""
            /\ users[canRes.id] = [canRes.before EXCEPT !.Status = canRes.to]
            /\ \A k \in ConnIds \ {c} : conns[k] = canRes.sent[k]
            /\ c # NoConn =>
                  /\ conns[c].closed = canRes.sent[c].closed
                  /\ Len(conns[c].sent) = Len(canRes.sent[c].sent) + 1
                  /\ SubSeq(conns[c].sent, 1, Len(canRes.sent[c].sent)) = canRes.sent[c].sent
                  /\ conns[c].sent[Len(conns[c].sent)].type = "stage_change"
                  /\ conns[c].sent[Len(conns[c].sent)].stage = canRes.to

\* a user with a connection moved from the dino stage to the captcha stage
C12_Witness ==
    /\ canRes.op = "Execute"
    /\ canRes.valid
    /\ canRes.from = StatusStage1Dino /\ canRes.to = StatusStage2Captcha
    /\ canRes.before.Conn # NoConn
    /\ users[canRes.id].Status = StatusStage2Captcha

\* C13: ResetToWaiting sets Status to waiting, zeroes the stage-scoped
\* fields, keeps ID, SessionID and the connection reference, and a second
\* reset changes nothing.
C13_ResetZeroes ==
    canRes.op = "ResetToWaiting" =>
        LET u == users[canRes.id]
        IN  /\ u.Status = StatusWaiting
            /\ u.CaptchaTargetX = 0 /\ u.CaptchaTargetY = 0
            /\ u.CaptchaAttempts = 0 /\ u.OTPAttempts = 0
            /\ u.OTPFishName = ""
            /\ u.RegisterToken = "" /\ u.RegisterTokenExp = ZeroTime
            /\ u.ID = canRes.before.ID
            /\ u.SessionID = canRes.before.SessionID
            /\ u.Conn = canRes.before.Conn
            /\ ResetToWaiting(u) = u

\* a registering user with attempts, a remembered fish and a token was reset
C13_Witness ==
    /\ canRes.op = "ResetToWaiting"
    /\ canRes.before.Status = StatusRegistering
    /\ canRes.before.CaptchaAttempts > 0
    /\ canRes.before.OTPFishName # ""
    /\ canRes.before.RegisterToken # ""
    /\ canRes.before.Conn # NoConn
    /\ users[canRes.id].Status = StatusWaiting


\* the indices of the entries of q that hold connection c, in queue order
HoldersOf(q, c) == SelectSeq([i \in 1..Len(q) |-> i], LAMBDA i : q[i].Conn = c)

\* C14: a broadcast leaves the queue as it was and appends to each
\* connection, for every entry holding it and in queue order, one
\* queueUpdate with the entry's 1-indexed rank and the total at the time of
\* the broadcast; a connection whose writes fail gets nothing and changes
\* nothing for the others.
C14_BroadcastRanks ==
    qres.op = "BroadcastPositions" =>
        /\ queue = qres.before
        /\ \A c \in ConnIds :
              LET h == HoldersOf(qres.before, c)
              IN  /\ conns[c].closed = qres.sent[c].closed
                  /\ conns[c].sent =
                        IF conns[c].werr THEN qres.sent[c].sent
                        ELSE qres.sent[c].sent \o
                               [k \in 1..Len(h) |->
                                   [type |-> "queueUpdate", position |-> h[k],
                                    total |-> Len(qres.before)]]

\* after add(A), add(B), popFront() the broadcast told B: position 1 of 1
C14_Witness ==
    /\ qres.op = "BroadcastPositions"
    /\ nextStamp = 2
    /\ Len(queue) = 1
    /\ queue[1].stamp = 2
    /\ queue[1].Conn # NoConn
    /\ conns[queue[1].Conn].sent = <<[type |-> "queueUpdate", position |-> 1, total |-> 1]>>


\* C15: Remove of an absent id leaves the queue as it was; PopFront on an
\* empty queue returns nil and leaves it empty; PopFront on a non-empty
\* queue returns the head and leaves exactly the entries behind it, in order.
C15_NoOpAndEmpty ==
    /\ (qres.op = "Remove" /\ ~HasId(qres.before, qres.id)) => queue = qres.before
    /\ (qres.op = "PopFront" /\ Len(qres.before) = 0) =>
          /\ qres.user = <<>>
          /\ Len(queue) = 0
    /\ (qres.op = "PopFront" /\ Len(qres.before) > 0) =>
          /\ qres.user = <<qres.before[1]>>
          /\ Len(queue) = Len(qres.before) - 1
          /\ \A i \in 1..Len(queue) : queue[i] = qres.before[i + 1]

\* a queue that had entries was emptied and PopFront then returned nil
C15_Witness ==
    /\ qres.op = "PopFront"
    /\ qres.user = <<>>
    /\ nextStamp >= 2
    /\ queue = <<>>


Finished(g) == sget[g].pc = "done" /\ sgh.got[g].op = "Get"

\* C16: a finished Get(id) reports found iff the id was stored when it read
\* the map and either no TTL is set or the session's age did not exceed the
\* TTL, and then returns the user stored under id; an expired session is
\* gone from the store when Get returns; Get's removal takes out exactly
\* that id (Count one less if it was still there) and only a session older
\* than the TTL.
C16_GetExpiry ==
    /\ \A g \in GetterIds :
          Finished(g) =>
            LET r == sgh.got[g]
            IN  /\ r.found <=> (r.stored /\ (store.expiry = 0 \/ r.age <= store.expiry))
                /\ r.found => r.user[1].SessionID = r.id
                /\ (r.stored /\ ~r.found) => r.id \notin DOMAIN store.sessions
    /\ sgh.last.op = "Evict" =>
          LET b == sgh.last.before
              id == sgh.last.id
          IN  /\ store.expiry > 0
              /\ DOMAIN store.sessions = DOMAIN b \ {id}
              /\ \A j \in DOMAIN store.sessions : store.sessions[j] = b[j]
              /\ id \in DOMAIN b =>
                    /\ sgh.last.at - b[id].CreatedAt > store.expiry
                    /\ Cardinality(DOMAIN store.sessions) = Cardinality(DOMAIN b) - 1

\* a Get found its session expired and removed it while another stayed
C16_Witness ==
    /\ sgh.last.op = "Evict"
    /\ sgh.last.id \in DOMAIN sgh.last.before
    /\ Cardinality(DOMAIN store.sessions) = 1
    /\ \E g \in GetterIds : Finished(g) /\ sgh.got[g].stored /\ ~sgh.got[g].found

\* C17: Create stores a new waiting user under an id that was not in the
\* store and touches no other session; the number of sessions is creates
\* minus removals; without TTL a Get that read a stored id returns the user
\* created under it.
C17_CreateFresh ==
    /\ Cardinality(DOMAIN store.sessions) = sgh.creates - sgh.removals
    /\ sgh.last.op = "Create" =>
          LET b == sgh.last.before
              id == sgh.last.id
          IN  /\ id \notin DOMAIN b
              /\ DOMAIN store.sessions = DOMAIN b \cup {id}
              /\ \A j \in DOMAIN b : store.sessions[j] = b[j]
              /\ store.sessions[id].User.Status = StatusWaiting
              /\ store.sessions[id].User.SessionID = id
    /\ \A j \in DOMAIN store.sessions : store.sessions[j].User.SessionID = j
    /\ \A g \in GetterIds :
          (Finished(g) /\ sgh.got[g].stored /\ store.expiry = 0) =>
              /\ sgh.got[g].found
              /\ sgh.got[g].user[1].SessionID = sgh.got[g].id
              /\ sgh.got[g].user[1].Status = StatusWaiting

\* a second session was created while a Get of the first was between its
\* two critical sections
C17_Witness ==
    /\ sgh.last.op = "Create"
    /\ Cardinality(DOMAIN store.sessions) = 2
    /\ \E g \in GetterIds : sget[g].pc = "check"

\* C18: Delete(id) removes id and nothing else (nothing at all when id is
\* absent), and a Get(id) that begins after Delete returned reports
\* not-found.
C18_DeleteUnconditional ==
    /\ sgh.last.op = "Delete" =>
          LET b == sgh.last.before
          IN  /\ DOMAIN store.sessions = DOMAIN b \ {sgh.last.id}
              /\ \A j \in DOMAIN store.sessions : store.sessions[j] = b[j]
              /\ sgh.last.id \notin DOMAIN b => store.sessions = b
    /\ \A g \in GetterIds :
          (Finished(g) /\ sgh.got[g].afterDelete) => ~sgh.got[g].found
    /\ \A id \in sgh.deleted : id \notin DOMAIN store.sessions

\* a stored session was deleted, another one stayed, and a later Get of the
\* deleted id reported not-found
C18_Witness ==
    /\ Cardinality(DOMAIN store.sessions) = 1
    /\ \E g \in GetterIds :
          /\ Finished(g)
          /\ sgh.got[g].afterDelete
          /\ ~sgh.got[g].found
          /\ sgh.got[g].id \in 1..store.issued


\* the axis-aligned test on the recorded corners: sharing an edge is no overlap
RectsIntersect(a, b) ==
    /\ a.X < b.X + b.Width /\ b.X < a.X + a.Width
    /\ a.Y < b.Y + b.Height /\ b.Y < a.Y + a.Height

\* C19: the recorded rectangles are pairwise non-intersecting, and between
\* calls PlacedCount is the number of successful TryPlace calls since the
\* last Reset.
C19_NoOverlap ==
    /\ \A i \in 1..Len(pm.placements), j \in 1..Len(pm.placements) :
          i # j => ~RectsIntersect(pm.placements[i], pm.placements[j])
    /\ Len(pm.placements) = pgh.placed
    /\ pgh.last.op = "PlacedCount" => pgh.last.n = pgh.placed

\* after a Reset had emptied the manager, three rectangles are recorded,
\* two of them sharing an edge, the last one after a collision
C19_Witness ==
    /\ pgh.wasReset
    /\ Len(pm.placements) = 3
    /\ pgh.placed = 3
    /\ \E i \in 1..3, j \in 1..3 :
          /\ pm.placements[i].X + pm.placements[i].Width = pm.placements[j].X
          /\ pm.placements[i].Y = pm.placements[j].Y
    /\ pgh.last.op = "TryPlace" /\ pgh.last.ok /\ pgh.last.tries > 1

\* C20: when TryPlace returns ok = false nothing was recorded: the
\* rectangles and PlacedCount are as before the call and the zero placement
\* is returned; a container smaller than the item fails on the first call.
C20_ExhaustionRecordsNothing ==
    /\ (pgh.last.op = "TryPlace" /\ ~pgh.last.ok) =>
          /\ pm.placements = pgh.last.before
          /\ Len(pm.placements) = pgh.placed
          /\ pgh.last.placement = ZeroPlacement
          /\ pgh.last.tries \in {0, pm.maxRetries}
    /\ (pgh.last.op = "TryPlace" /\ (pm.bgWidth < pm.charWidth \/ pm.bgHeight < pm.charHeight)) =>
          ~pgh.last.ok /\ pm.placements = <<>>

\* a TryPlace whose 100 candidates all collided with the rectangles already
\* recorded has returned
C20_Witness ==
    /\ pgh.last.op = "TryPlace"
    /\ ~pgh.last.ok
    /\ pgh.last.tries = pm.maxRetries
    /\ Len(pm.placements) >= 1


\* C21: a rectangle returned by TryPlace has its top-left coordinate in
\* 0 .. containerDim - itemDim - 1 on both axes (rand.Intn excludes its
\* argument), so it lies inside the container and does not touch its right
\* or bottom edge; an item that exactly fills the container on an axis is
\* never placed.
C21_SamplingRange ==
    /\ \A i \in 1..Len(pm.placements) :
          LET p == pm.placements[i]
          IN  /\ 0 <= p.X /\ p.X < pm.bgWidth - pm.charWidth
              /\ 0 <= p.Y /\ p.Y < pm.bgHeight - pm.charHeight
              /\ p.X + p.Width <= pm.bgWidth /\ p.Y + p.Height <= pm.bgHeight
    /\ (pgh.last.op = "TryPlace" /\ pgh.last.ok) =>
          pgh.last.placement = pm.placements[Len(pm.placements)]
    /\ (pgh.last.op = "TryPlace"
          /\ (pm.bgWidth = pm.charWidth \/ pm.bgHeight = pm.charHeight)) =>
          ~pgh.last.ok

\* the first TryPlace of a session returned the largest coordinate of the
\* range on both axes
C21_Witness ==
    /\ pgh.last.op = "TryPlace" /\ pgh.last.ok
    /\ pgh.last.before = <<>>
    /\ pgh.last.placement.X = pm.bgWidth - pm.charWidth - 1
    /\ pgh.last.placement.Y = pm.bgHeight - pm.charHeight - 1
    /\ pm.charWidth > 0

\* C21 as stated, inclusive range: on an empty session every item that fits
\* the container is placed, the exactly filling one at (0,0)
C21_InclusiveRange ==
    (/\ pgh.last.op = "TryPlace"
     /\ pgh.last.before = <<>>
     /\ pm.charWidth <= pm.bgWidth /\ pm.charHeight <= pm.bgHeight) =>
        /\ pgh.last.ok
        /\ (pm.charWidth = pm.bgWidth /\ pm.charHeight = pm.bgHeight) =>
              pgh.last.placement = MkPlacement(0, 0, pm.charWidth, pm.charHeight)


\* the user a failure path works on is an entry of the queue
Queued(id) == \E i \in 1..Len(queue) : queue[i].ID = id

\* C22: once HandleFailure has handled a user who held a connection, the
\* user is a member of the queue, the queue has grown by one, the Status is
\* Waiting and the connection is closed.
C22_HandleFailureRequeues ==
    (proc["HandleFailure"].pc = "done" /\ proc["HandleFailure"].held # NoConn) =>
        /\ Queued(proc["HandleFailure"].user)
        /\ Len(queue) >= 1
        /\ conns[proc["HandleFailure"].held].closed >= 1


\* the entries of the queue that carry the id
EntriesOf(id) == SelectSeq(queue, LAMBDA x : x.ID = id)
\* the instance has appended its user
HasEnqueued(t) == Count(proc[t].log, "enqueue") = 1

\* C23: each fire of a CaptchaTimeout with a queue set appends exactly one
\* entry with its user's id (and connection) behind the entries already
\* queued; the queue holds one entry per fired user whatever the
\* interleaving, and a canceled timeout or one without queue adds none.
C23_OneEntryPerFire ==
    /\ \A t \in CaptchaInstances :
          /\ Len(EntriesOf(BoundUser(t))) = (IF HasEnqueued(t) THEN 1 ELSE 0)
          /\ HasEnqueued(t) =>
                /\ tmo[t].queueSet
                /\ EntriesOf(BoundUser(t))[1].Conn = tgh[t].conn
          /\ (proc[t].pc \in {"close", "done"} /\ tmo[t].queueSet) => HasEnqueued(t)
          /\ tgh[t].cancelWon => ~HasEnqueued(t)
    /\ Len(queue) = Len(EntriesOf("a"))
                     + Cardinality({t \in CaptchaInstances : HasEnqueued(t)})
    /\ \A i \in 1..Len(queue) : queue[i].ID = "a" => i = 1

\* both users' timeouts fired on an occupied queue; the user armed second
\* was queued first
C23_Witness ==
    /\ Len(queue) = 3
    /\ queue[1].ID = "a" /\ queue[2].ID = "u2" /\ queue[3].ID = "u1"
    /\ \A t \in CaptchaInstances : proc[t].pc = "done"


\* position of the first ev in a log, 0 when there is none
RECURSIVE FirstAt(_, _, _)
FirstAt(log, ev, i) ==
    IF i > Len(log) THEN 0
    ELSE IF log[i] = ev THEN i
    ELSE FirstAt(log, ev, i + 1)

\* every goroutine that has re-enqueued its user had reset the user before
ResetThenEnqueue(pr) ==
    \A p \in ProcIds :
        FirstAt(pr[p].log, "enqueue", 1) > 0 =>
            /\ FirstAt(pr[p].log, "reset", 1) > 0
            /\ FirstAt(pr[p].log, "reset", 1) < FirstAt(pr[p].log, "enqueue", 1)

\* C24: in every failure path that re-enqueues, ResetToWaiting precedes the
\* queue Add, and at the step that makes the entry visible in the queue
\* the user's Status is Waiting.
C24_ResetBeforeEnqueue ==
    [][/\ ResetThenEnqueue(proc')
       /\ \A i \in (Len(queue) + 1)..Len(queue') :
             users'[queue'[i].ID].Status = StatusWaiting]_vars


\* the handler requests that answer with a JSON body
HandlerOps == {"CaptchaVerify", "OTPSend", "OTPVerify", "Submit"}
\* the failure path of Submit has run to its end
SubmitHandled ==
    /\ canRes.op = "Submit"
    /\ proc["Register"].pc = "done"

\* C25: a Submit by a user in Registering answers with an error whatever
\* token the request carries, resets the user to Waiting with the token
\* cleared, and no user ever has a status beyond the four stages.
C25_RegistrationNeverCompletes ==
    /\ \A u \in UserIds : users[u].Status \in Statuses
    /\ canRes.op = "Submit" =>
          /\ canRes.error
          /\ canRes.before.Status = StatusRegistering
          /\ proc["Register"].pc # "idle"
    /\ SubmitHandled =>
          /\ Count(proc["Register"].log, "reset") = 1
          /\ users[canRes.id].Status = StatusWaiting
          /\ users[canRes.id].RegisterToken = ""

\* a Submit carrying the very token the user was issued has been answered
\* with the error and the user is back in Waiting
C25_Witness ==
    /\ SubmitHandled
    /\ canRes.code = "tok"
    /\ canRes.before.RegisterToken = "tok"
    /\ users[canRes.id].Status = StatusWaiting


\* a step lowers no attempt counter of u
CountersKept(u) ==
    /\ users'[u].CaptchaAttempts >= users[u].CaptchaAttempts
    /\ users'[u].OTPAttempts >= users[u].OTPAttempts
\* a step leaves both attempt counters of u within the maximum
CountersBounded(u) ==
    /\ users'[u].CaptchaAttempts <= MaxCaptchaAttempts
    /\ users'[u].OTPAttempts <= MaxOTPAttempts

\* C26 as stated: both counters stay within 3 and only ResetToWaiting
\* lowers one.
C26_CountersBoundedMonotone ==
    [][\A u \in UserIds :
         /\ CountersBounded(u)
         /\ CountersKept(u) \/ users'[u] = ResetToWaiting(users[u])]_vars


\* the last answer is that of a failed captcha or OTP verification
FailedVerify == canRes.op \in {"CaptchaVerify", "OTPVerify"} /\ canRes.error
\* the goroutine that served it, and the failures the user had before
VerifyProc == IF canRes.op = "CaptchaVerify" THEN "CaptchaMax" ELSE "OTPMax"
PriorFailures ==
    IF canRes.op = "CaptchaVerify" THEN canRes.before.CaptchaAttempts
    ELSE canRes.before.OTPAttempts
FailuresNow ==
    IF canRes.op = "CaptchaVerify" THEN canRes.after.CaptchaAttempts
    ELSE canRes.after.OTPAttempts
\* the forced reset of the third strike has run to its end
ForcedResetDone == FailedVerify /\ PriorFailures = 2 /\ proc[VerifyProc].pc = "done"
\* its effects on the user, and on the connection the user held if any
ForcedResetEffects(needConn) ==
    LET c == proc[VerifyProc].held
    IN  /\ users[canRes.id].Status = StatusWaiting
        /\ users[canRes.id].CaptchaAttempts = 0
        /\ users[canRes.id].OTPAttempts = 0
        /\ needConn => c # NoConn
        /\ c # NoConn =>
              /\ \E i \in 1..Len(conns[c].sent) :
                    /\ conns[c].sent[i].type = "failure"
                    /\ conns[c].sent[i].redirect_delay = 3
              /\ conns[c].closed >= 1

\* C27: a failed captcha or OTP verification with k prior failures
\* increments the counter; for k in {0,1} it keeps the Status and answers
\* attempts_remaining = 3 - (k+1), except that a captcha retry whose new
\* image cannot be generated answers REGENERATION_FAILED without it; for
\* k = 2 it runs the forced reset: Status Waiting, counters zero, and, if
\* the user holds a connection, the failure notification with redirect
\* delay 3 and the close.
C27_ThreeStrikes ==
    /\ FailedVerify =>
          /\ FailuresNow = PriorFailures + 1
          /\ PriorFailures \in {0, 1} =>
                /\ canRes.after.Status = canRes.before.Status
                /\ canRes.code # "handleMaxAttempts"
                /\ canRes.remaining =
                      IF canRes.code = "REGENERATION_FAILED" THEN -1
                      ELSE 3 - (PriorFailures + 1)
          /\ PriorFailures = 2 => canRes.code = "handleMaxAttempts"
    /\ ForcedResetDone => ForcedResetEffects(FALSE)

\* the third failed captcha attempt of a connected user has been handled
C27_Witness ==
    /\ ForcedResetDone
    /\ canRes.op = "CaptchaVerify"
    /\ proc[VerifyProc].held = "c1"
    /\ conns["c1"].closed = 1

\* C27 as stated: every failed verification with k in {0,1} reports
\* attempts_remaining, and every third strike notifies and closes
C27_AlwaysReportsRemaining ==
    /\ FailedVerify =>
          /\ FailuresNow = PriorFailures + 1
          /\ PriorFailures \in {0, 1} =>
                /\ canRes.after.Status = canRes.before.Status
                /\ canRes.remaining = 3 - (PriorFailures + 1)
    /\ ForcedResetDone => ForcedResetEffects(TRUE)


\* C28: ValidateRegisterToken answers valid exactly when the session id is
\* the user's, the token is non-empty and is the user's RegisterToken, and
\* the token is not expired; otherwise the code is INVALID_SESSION, else
\* INVALID_TOKEN, else TOKEN_EXPIRED. A user whose token was wiped by
\* ResetToWaiting has every token rejected.
C28_ValidateToken ==
    canRes.op = "Validate" =>
        LET u == canRes.before
            sessionOk == canRes.sessionID = u.SessionID
            tokenOk == canRes.token # "" /\ canRes.token = u.RegisterToken
            live == u.RegisterTokenExp # ZeroTime /\ canRes.at < u.RegisterTokenExp
        IN  /\ canRes.valid <=> (sessionOk /\ tokenOk /\ live)
            /\ canRes.code = (IF ~sessionOk THEN "INVALID_SESSION"
                              ELSE IF ~tokenOk THEN "INVALID_TOKEN"
                              ELSE IF ~live THEN "TOKEN_EXPIRED"
                              ELSE "")
            /\ u = ResetToWaiting(u) => ~canRes.valid

\* the token issued first is presented, with the right session id and
\* before its deadline, after ResetToWaiting wiped it: INVALID_TOKEN
C28_Witness ==
    /\ canRes.op = "Validate"
    /\ store.issued >= 1
    /\ canRes.token = "t1"
    /\ canRes.sessionID = canRes.before.SessionID
    /\ canRes.before.RegisterToken = ""
    /\ canRes.code = "INVALID_TOKEN"


\* C29: the callback passed to ExecuteWithCallback is not called when Cancel
\* returns while the delay of that call is pending, and is called exactly
\* once when Cancel is not called during the call: the call then reaches
\* its end, and at its end the callback has run once (never more).
DelayCallbackSafe ==
    /\ dex.calls <= 1
    /\ dex.cancelPending => dex.calls = 0
    /\ (dex.pc = "done" /\ dex.callback /\ ~dex.cancelInCall) => dex.calls = 1

C30_OneDeadline ==
    /\ Len(sup.ran) <= 1
    /\ \A i \in 1..Len(sup.ran) : ~sup.ran[i].void


\* C40: ExecuteWithCallback always returns to its caller: a call with a
\* positive delay, canceled while it waits or not, eventually ends.
C40_AlwaysReturns ==
    (dex.pc = "wait" /\ dex.delay > 0) ~> (dex.pc = "done")


\* C31: a user's Status changes from waiting to stage1_dino only when that
\* user is the head of the waiting queue at that moment.
C31_AdmissionInOrder ==
    (canRes.op = "Start" /\ canRes.promoted) =>
        /\ Len(canRes.before) > 0
        /\ canRes.before[1].ID = users[canRes.id].ID

\* C32: after DinoHandler.Start (with the queue set) promoted a user, the
\* entry Connect added for that user is no longer in the waiting queue.
C32_PromotedLeavesQueue ==
    (canRes.op = "Start" /\ canRes.promoted /\ hq) =>
        \A i \in 1..Len(canRes.after) : canRes.after[i].ID # users[canRes.id].ID

\* C35: in every reachable state no user id occurs more than once in the
\* waiting queue.
C35_OneEntryPerUser ==
    \A i, j \in 1..Len(queue) : i # j => queue[i].ID # queue[j].ID

\* the entries of queue a that are no longer in queue b
Dropped(a, b) ==
    {a[i] : i \in {k \in 1..Len(a) : \A j \in 1..Len(b) : b[j].stamp # a[k].stamp}}
\* the stamps of the entries that Connect calls added
ConnectStamps == {ws.stamp[c] : c \in ConnIds} \ {0}

\* C36: the disconnect cleanup of connection c removes only the entry that
\* Connect added for c: an entry added by a failure path is not removed,
\* and neither is an entry that belongs to another connection.
C36_CleanupKeepsRequeued ==
    canRes.op = "Cleanup" =>
        \A e \in Dropped(canRes.before, canRes.after) :
            /\ e.stamp \in ConnectStamps
            /\ e.Conn = canRes.conn


\* C33: every change of a user's Status is an edge of the validTransitions
\* table or a reset to waiting; no operation moves a user from waiting
\* directly to registering.
StatusStep(u) ==
    users'[u].Status # users[u].Status =>
        \/ users'[u].Status = StatusWaiting
        \/ users'[u].Status \in {s \in Statuses : CanTransitionTo(users[u], s)}

C33_StagesInOrder == [][\A u \in UserIds : StatusStep(u)]_vars

\* C34: whenever a user's Status is waiting, the captcha target, both
\* attempt counters, the remembered OTP answer and the register token with
\* its expiry are zero.
C34_WaitingIsClean ==
    \A u \in UserIds :
        users[u].Status = StatusWaiting =>
            /\ users[u].CaptchaTargetX = 0 /\ users[u].CaptchaTargetY = 0
            /\ users[u].CaptchaAttempts = 0 /\ users[u].OTPAttempts = 0
            /\ users[u].OTPFishName = ""
            /\ users[u].RegisterToken = "" /\ users[u].RegisterTokenExp = ZeroTime


\* C37: the watch loop begins its expiry side effects only for a user who
\* still holds a register token that has expired; a user whom another
\* failure path has reset (token and expiry zeroed) is left alone.
HoldsExpiredToken(u) ==
    /\ u.RegisterToken # ""
    /\ u.RegisterTokenExp # ZeroTime
    /\ now >= u.RegisterTokenExp

C37_LiveTokenOnly ==
    [][\A l \in LoopIds :
         (proc[l].pc = "select" /\ proc'[l].pc = "hx_notify") =>
             HoldsExpiredToken(users[proc[l].user])]_vars

(***************************************************************************)
(* C38: under every interleaving of Watch, Unwatch and Stop (Unwatch after *)
(* the loop fired, Unwatch twice, Stop after Unwatch, Stop twice, Watch    *)
(* twice for one user) no stop channel is closed more than once.           *)
(***************************************************************************)
C38_StopChannelClosedOnce == \A l \in LoopIds : mon.closed[l] <= 1

\* u1 was watched twice, then unwatched, then Stop ran; the second loop saw
\* its channel closed (once) and returned
C38_Witness ==
    /\ mgh.watches["u1"] = 2
    /\ mgh.unwatched["u1"]
    /\ mgh.stopCalled
    /\ mon.closed["l2"] = 1
    /\ proc["l2"].pc = "stopped"

(***************************************************************************)
(* The lock view: which mutexes each operation takes, in which order.      *)
(*   "q" WaitingQueue.mu (RWMutex)     "s" SessionStore.mu (RWMutex)       *)
(*   "t" CaptchaTimeout.mu             "m" TokenMonitor.mu                 *)
(*   "c1", "c2" the mu of each handler.WebSocketConn, taken by WriteJSON   *)
(* lk[g].steps is the sequence of lock operations of the call g is in and  *)
(* lk[g].pc the number of them already done. The view keeps the queue,     *)
(* whose entries decide which connections BroadcastPositions writes to;    *)
(* the branches that depend on other fields (a session that expired, a     *)
(* timeout that was canceled) are both explored.                           *)
(***************************************************************************)
LockIds == {"q", "s", "t", "m"} \cup ConnIds

\* mu.Lock() ... mu.Unlock()
Locked(x) == <<<<"Lock", x>>, <<"Unlock", x>>>>
\* mu.RLock() ... mu.RUnlock()
RLocked(x) == <<<<"RLock", x>>, <<"RUnlock", x>>>>

\* if conn != nil { conn.WriteJSON(...) }: WebSocketConn.WriteJSON locks c.mu
ConnWrite(c) == IF c = NoConn THEN <<>> ELSE Locked(c)

\* the loop of BroadcastPositions over q.users
RECURSIVE BroadcastWrites(_)
BroadcastWrites(q) ==
    IF q = <<>> THEN <<>> ELSE ConnWrite(Head(q).Conn) \o BroadcastWrites(Tail(q))

QueueOps == {"Add", "Remove", "GetPosition", "Len", "PopFront", "BroadcastPositions"}
StoreOps == {"Create", "Get", "Delete", "Count"}
TimeoutOps == {"Start", "Cancel", "handleTimeout"}
MonitorOps == {"Watch", "Unwatch", "Stop", "handleExpiration"}
LockOps == QueueOps \cup StoreOps \cup TimeoutOps \cup MonitorOps

\* the lock operations of one call. taken: the session had expired (Get),
\* the timeout was not canceled (handleTimeout)
LockSteps(op, u, taken) ==
    CASE op \in {"Add", "Remove", "PopFront"} -> Locked("q")
      [] op \in {"GetPosition", "Len"} -> RLocked("q")
      \* the writes are known once the read lock is held
      [] op = "BroadcastPositions" -> RLocked("q")
      [] op \in {"Create", "Delete"} -> Locked("s")
      [] op = "Count" -> RLocked("s")
      [] op = "Get" -> RLocked("s") \o (IF taken THEN Locked("s") ELSE <<>>)
      [] op \in {"Start", "Cancel"} -> Locked("t")
      [] op = "handleTimeout" ->
            Locked("t") \o
            (IF taken
             THEN ConnWrite(users[u].Conn) \o (IF hq THEN Locked("q") ELSE <<>>)
             ELSE <<>>)
      [] op \in {"Watch", "Unwatch", "Stop"} -> Locked("m")
      [] op = "handleExpiration" ->
            ConnWrite(users[u].Conn) \o Locked("m") \o (IF hq THEN Locked("q") ELSE <<>>)

lframe == <<users, conns, proc, tvars, hq, svars, pvars, dex, sup, ws, mvars, nstarted, canRes>>

\* the operations that take a user, and those with a branch
UserOps == {"Add", "Remove", "handleTimeout", "handleExpiration"}
BranchOps == {"Get", "handleTimeout"}

\* calls in flight that will append to the queue
Appending == {g \in Goroutines : lk[g].op \in {"Add", "handleTimeout", "handleExpiration"}}

\* goroutine g enters an operation
Call(g, op, u, taken) ==
    /\ lk[g].op = "idle"
    /\ op \notin UserOps => u = "u1"
    /\ op \notin BranchOps => taken
    /\ op \in {"Add", "handleTimeout", "handleExpiration"} =>
          /\ Len(queue) + Cardinality(Appending) < MaxQueue
          /\ nextStamp + Cardinality(Appending) < MaxAdds
    /\ lk' = [lk EXCEPT ![g] = [op |-> op, user |-> u, steps |-> LockSteps(op, u, taken), pc |-> 0]]
    /\ UNCHANGED <<qvars, lframe>>

Busy(g) == lk[g].op # "idle"
\* the lock operation g is about to do
NextStep(g) == lk[g].steps[lk[g].pc + 1]
Acquiring(g) == Busy(g) /\ NextStep(g)[1] \in {"Lock", "RLock"}

\* g took x with Lock (kind "Lock") or RLock (kind "RLock") and has not released it
Holds(g, x, kind) ==
    \E i \in 1..lk[g].pc :
        /\ lk[g].steps[i] = <<kind, x>>
        /\ \A j \in (i + 1)..lk[g].pc : lk[g].steps[j][2] # x
HeldBy(g) == {x \in LockIds : Holds(g, x, "Lock") \/ Holds(g, x, "RLock")}

\* Lock waits for every holder, RLock for a writer; a sync mutex is not reentrant
CanAcquire(kind, x) ==
    IF kind = "Lock"
    THEN \A h \in Goroutines : x \notin HeldBy(h)
    ELSE \A h \in Goroutines : ~Holds(h, x, "Lock")

\* the call returns after its last lock operation
Advanced(g, steps) ==
    IF lk[g].pc + 1 = Len(steps) THEN [lk EXCEPT ![g] = IdleCall]
    ELSE [lk EXCEPT ![g].pc = @ + 1, ![g].steps = steps]

\* mu.Lock() / mu.RLock() returns
MutexLock(g) ==
    /\ Acquiring(g)
    /\ CanAcquire(NextStep(g)[1], NextStep(g)[2])
    /\ lk' = Advanced(g, IF lk[g].op = "BroadcastPositions"
                         THEN <<<<"RLock", "q">>>> \o BroadcastWrites(queue) \o <<<<"RUnlock", "q">>>>
                         ELSE lk[g].steps)
    /\ UNCHANGED <<qvars, lframe>>

\* what the critical section on q.mu did to q.users
QueueEffect(g) ==
    CASE lk[g].op \in {"Add", "handleTimeout", "handleExpiration"} ->
            /\ queue' = Appended(queue, users[lk[g].user].ID, users[lk[g].user].Conn, nextStamp + 1)
            /\ nextStamp' = nextStamp + 1
      [] lk[g].op = "Remove" ->
            /\ queue' = Removed(queue, users[lk[g].user].ID)
            /\ UNCHANGED nextStamp
      [] lk[g].op = "PopFront" ->
            /\ queue' = IF Len(queue) = 0 THEN queue ELSE Tail(queue)
            /\ UNCHANGED nextStamp
      [] OTHER -> UNCHANGED <<queue, nextStamp>>

\* mu.Unlock() / mu.RUnlock()
MutexUnlock(g) ==
    /\ Busy(g)
    /\ ~Acquiring(g)
    /\ IF NextStep(g) = <<"Unlock", "q">>
       THEN QueueEffect(g)
       ELSE UNCHANGED <<queue, nextStamp>>
    /\ lk' = Advanced(g, lk[g].steps)
    /\ UNCHANGED <<qres, lframe>>

LocksInit ==
    /\ queue = <<>>
    /\ nextStamp = 0
    /\ qres = NoRes
    /\ users = [u \in UserIds |->
                  MkUser(u, StatusWaiting, 0, 0, "", "", ZeroTime, IF u = "u1" THEN "c1" ELSE NoConn)]
    /\ conns = FreshConns
    /\ proc = [p \in ProcIds |-> IdleProc("u1")]
    /\ \E qs \in BOOLEAN :
          /\ tmo = [t \in TimeoutIds |-> NewTimeout("u1", qs)]
          /\ mon = NewTokenMonitor(qs)
          /\ hq = qs
    /\ tgh = [t \in TimeoutIds |-> NoCalls]
    /\ StoreIdle
    /\ PlacementIdle
    /\ DelayIdle
    /\ NoSockets
    /\ NoLocks
    /\ SupervisorIdle
    /\ mgh = NoMonCalls
    /\ now = 1
    /\ nstarted = 0
    /\ canRes = NoRes

LocksNext ==
    \/ \E g \in Goroutines, op \in LockOps, u \in UserIds, taken \in BOOLEAN : Call(g, op, u, taken)
    \/ \E g \in Goroutines : MutexLock(g)
    \/ \E g \in Goroutines : MutexUnlock(g)

SpecLocks == LocksInit /\ [][LocksNext]_vars

\* g waits in Lock / RLock
Blocked(g) == Acquiring(g) /\ ~CanAcquire(NextStep(g)[1], NextStep(g)[2])
\* g waits for a lock that h holds
WaitsFor(g, h) == Blocked(g) /\ NextStep(g)[2] \in HeldBy(h)
\* no set of goroutines in which each waits for a lock held inside the set
NoLockWaitsForever ==
    \A S \in SUBSET Goroutines :
        S # {} => \E g \in S : \A h \in S : ~WaitsFor(g, h)
\* nobody asks for a lock while holding one
NoLockHeldWhileAcquiring == \A g \in Goroutines : Acquiring(g) => HeldBy(g) = {}

(***************************************************************************)
(* C39: no interleaving of the WaitingQueue, SessionStore, timeout and     *)
(* TokenMonitor operations reaches a state where an operation waits        *)
(* forever for a lock, and no operation holds one component's lock while   *)
(* acquiring another's.                                                    *)
(***************************************************************************)
C39_DeadlockFree == NoLockWaitsForever /\ NoLockHeldWhileAcquiring

====
